---------------------------- MODULE Spec2Model ----------------------------
(***************************************************************************)
(* A model of pearlacid: a zoo of pseudorandom generators behind one RNG   *)
(* trait (src/src/rngs.rs), a battery of statistical tests                 *)
(* (src/src/stats.rs), the bit/matrix utilities they use                   *)
(* (src/src/utils.rs) and the suite driver that classifies the p-values    *)
(* (src/src/rng_testing.rs).                                               *)
(*                                                                         *)
(* Machine words are modelled at their full width.  A w-bit unsigned       *)
(* integer is the set of the positions (0 = least significant) of its one  *)
(* bits, so u64::MAX is 0..63 and 0 is {}.  XOR is symmetric difference,   *)
(* count_ones is Cardinality, and wrapping addition and multiplication are *)
(* carried out bit by bit and cut at the width.                            *)
(***************************************************************************)
EXTENDS Integers, Sequences, FiniteSets, TLC

(***************************************************************************)
(* Bit-vector arithmetic                                                   *)
(***************************************************************************)

\* two to the power n, for the small n that fit a model integer
Pow2(n) == 2 ^ n

\* the bits of a small non-negative integer
BitsOfNat(n) == {i \in 0..30 : (n \div Pow2(i)) % 2 = 1}

\* the integer a (small) bit set stands for
RECURSIVE NatOfBits(_)
NatOfBits(b) ==
    IF b = {} THEN 0
    ELSE LET i == CHOOSE x \in b : TRUE IN Pow2(i) + NatOfBits(b \ {i})

\* a hexadecimal literal, given as its digits, most significant first
HexBits(h) ==
    {4 * (Len(h) - k) + j : k \in 1..Len(h), j \in 0..3} \cap
    {p \in 0..(4 * Len(h) - 1) :
        (h[Len(h) - (p \div 4)] \div Pow2(p % 4)) % 2 = 1}

Mask(w) == 0..(w - 1)
Trunc(a, w) == a \cap Mask(w)
Xor(a, b) == (a \ b) \cup (b \ a)
Not(a, w) == Mask(w) \ a
Shl(a, k, w) == {i + k : i \in a} \cap Mask(w)
Shr(a, k) == {i - k : i \in {x \in a : x >= k}}
RotL(a, k, w) == {(i + k) % w : i \in a}

\* Arithmetic goes byte by byte: widths are multiples of 8 bits.
ByteAt(a, i) == {b - 8 * i : b \in a \cap ((8 * i)..(8 * i + 7))}
PutByte(byte, i) == {b + 8 * i : b \in byte}
ByteVal(byte) ==
    (IF 0 \in byte THEN 1 ELSE 0) + (IF 1 \in byte THEN 2 ELSE 0) +
    (IF 2 \in byte THEN 4 ELSE 0) + (IF 3 \in byte THEN 8 ELSE 0) +
    (IF 4 \in byte THEN 16 ELSE 0) + (IF 5 \in byte THEN 32 ELSE 0) +
    (IF 6 \in byte THEN 64 ELSE 0) + (IF 7 \in byte THEN 128 ELSE 0)
BitsOfByte(n) == {i \in 0..7 : (n \div Pow2(i)) % 2 = 1}

\* the value of byte k of a
ByteValAt(a, k) ==
    (IF 8 * k \in a THEN 1 ELSE 0) + (IF 8 * k + 1 \in a THEN 2 ELSE 0) +
    (IF 8 * k + 2 \in a THEN 4 ELSE 0) + (IF 8 * k + 3 \in a THEN 8 ELSE 0) +
    (IF 8 * k + 4 \in a THEN 16 ELSE 0) + (IF 8 * k + 5 \in a THEN 32 ELSE 0) +
    (IF 8 * k + 6 \in a THEN 64 ELSE 0) + (IF 8 * k + 7 \in a THEN 128 ELSE 0)

\* the bytes k..n-1 of a, least significant first, as a tuple
RECURSIVE BytesFrom(_, _, _)
BytesFrom(a, k, n) ==
    IF k >= n THEN <<>> ELSE <<ByteValAt(a, k)>> \o BytesFrom(a, k + 1, n)
Bytes(a, n) == BytesFrom(a, 0, n)

\* the bit set of a tuple of bytes
BitsOfBytes(t) ==
    {p \in 0..(8 * Len(t) - 1) : (t[(p \div 8) + 1] \div Pow2(p % 8)) % 2 = 1}

\* x + y + carry from byte k on, of n bytes (byte j is x[j + 1])
RECURSIVE AddBytes(_, _, _, _, _)
AddBytes(x, y, k, carry, n) ==
    IF k >= n THEN <<>>
    ELSE LET s == x[k + 1] + y[k + 1] + carry
         IN <<s % 256>> \o AddBytes(x, y, k + 1, s \div 256, n)

\* wrapping_add at width w
WrappingAdd(a, b, w) ==
    BitsOfBytes(AddBytes(Bytes(a, w \div 8), Bytes(b, w \div 8), 0, 0,
                         w \div 8))

\* the byte products of weight k, from term i on
RECURSIVE ColumnSum(_, _, _, _)
ColumnSum(x, y, k, i) ==
    IF i > k THEN 0
    ELSE x[i + 1] * y[k - i + 1] + ColumnSum(x, y, k, i + 1)

\* schoolbook product from byte k on, cut at n bytes
RECURSIVE MulBytes(_, _, _, _, _)
MulBytes(x, y, k, carry, n) ==
    IF k >= n THEN <<>>
    ELSE LET t == ColumnSum(x, y, k, 0) + carry
         IN <<t % 256>> \o MulBytes(x, y, k + 1, t \div 256, n)

\* wrapping_mul at width w
WrappingMul(a, b, w) ==
    BitsOfBytes(MulBytes(Bytes(a, w \div 8), Bytes(b, w \div 8), 0, 0,
                         w \div 8))

\* swap_bytes of a value of nbytes bytes
SwapBytes(a, nbytes) == {8 * (nbytes - 1 - (i \div 8)) + (i % 8) : i \in a}

\* b, with a evaluated first: long loops are folded by halves, and the left
\* half is evaluated before the right half starts.  The value is b.
After(a, b) == IF a = a THEN b ELSE b

U64_MAX == Mask(64)
USIZE_MAX == Mask(64)

(***************************************************************************)
(* Program state                                                           *)
(***************************************************************************)
VARIABLES
    rng,              \* the generator under test: [kind, state]
    overflow_checks,  \* build profile: TRUE = overflow checks on (debug)
    panicked,         \* the thread has panicked
    last,             \* the last RNG call: [op, arg, out]
    prev,             \* the generator before the last call
    seeded,           \* the seed of the latest new/reseed
    before,           \* the RNG call before the last one: [op, arg, out]
    calls,            \* number of RNG calls made so far
    matrix,           \* the argument of the rank functions: 32 rows of 32 bits
    rank,             \* what rank_binary_matrix returned for it, or NoRank
    rank_nist,        \* what rank_binary_matrix_nist returned, or NoRank
    pc,               \* where the suite (or the single test run) stands
    samples,      \* the number of words of a buffer
    seeds,            \* the seed list given to test_suite_with_seeds
    test_weak_seeds,  \* the flag given to test_suite_with_seeds
    returned,         \* what a special function returns within its range
    index,            \* the position in the seed list being worked on
    buffer,        \* the buffer generated last
    tested,           \* the seed it was generated for: [from, seed]
    test_results,     \* the TestResults accumulated
    found_weak_seeds, \* the weak seeds found so far
    output,           \* the lines written so far
    summary           \* what format_test_results_summary made of the results

rngVars == <<rng, overflow_checks, panicked, last, prev, seeded, before, calls>>
rankVars == <<matrix, rank, rank_nist>>
suiteVars == <<pc, samples, seeds, test_weak_seeds, returned, index,
               buffer, tested, test_results, found_weak_seeds, output,
               summary>>
vars == <<rngVars, rankVars, suiteVars>>

(***************************************************************************)
(* rngs.rs: ReferenceRand.  rand's StdRng is a library stream: a seed      *)
(* fixes a sequence of 32-bit words, next_u32 takes one and next_u64 two.  *)
(* Its words are kept symbolic: the seed, the position, the word count.    *)
(***************************************************************************)
StdRng_seed_from_u64(seed) == [seed |-> seed, index |-> 0]
StdRng_next_u32(r) ==
    [state |-> [r EXCEPT !.index = @ + 1],
     out |-> <<"StdRng", r.seed, r.index, 1>>, panic |-> FALSE]
StdRng_next_u64(r) ==
    [state |-> [r EXCEPT !.index = @ + 2],
     out |-> <<"StdRng", r.seed, r.index, 2>>, panic |-> FALSE]

ReferenceRand_new(seed) == StdRng_seed_from_u64(seed)
ReferenceRand_next_u32(state) == StdRng_next_u32(state)
ReferenceRand_next(state) == StdRng_next_u64(state)
RECURSIVE ReferenceRand_advance(_, _)
ReferenceRand_advance(state, delta) ==
    IF delta = 0 THEN state
    ELSE ReferenceRand_advance(ReferenceRand_next(state).state, delta - 1)
ReferenceRand_reseed(state, seed) == StdRng_seed_from_u64(seed)

(***************************************************************************)
(* rngs.rs: stream_nlarx                                                   *)
(***************************************************************************)
INITIAL_STATE == {}
N_ROUNDS == 6
HIGH_64 == 64..127
LOW_64 == 0..63

mix_round(s0) ==
    LET s1 == SwapBytes(s0, 16)
        s2 == Xor(s1, RotL(s1, 17, 128))
        s3 == IF 0 \in s2
              THEN WrappingAdd(s2, RotL(s2, 23, 128), 128)
              ELSE WrappingAdd(s2, RotL(s2, 41, 128), 128)
    IN IF 1 \in s3
       THEN WrappingAdd(s3, RotL(s3, 33, 128), 128)
       ELSE WrappingAdd(s3, RotL(s3, 17, 128), 128)

RECURSIVE mix_rounds(_, _)
mix_rounds(out_state, n) ==
    IF n = 0 THEN out_state ELSE mix_rounds(mix_round(out_state), n - 1)

mix_u128(in_state) == mix_rounds(in_state, N_ROUNDS)

StreamNLARXu128_new(seed) == Shl(seed, 64, 128) \cup INITIAL_STATE
\* a faulty advance: the sum is not cut to the counter half
StreamNLARXu128_advance_unmasked(state, delta) ==
    WrappingAdd(state, delta, 128)
StreamNLARXu128_advance(state, delta) ==
    (state \cap HIGH_64) \cup (WrappingAdd(state, delta, 128) \cap LOW_64)
StreamNLARXu128_next(state) ==
    LET s == StreamNLARXu128_advance(state, {0})
    IN [state |-> s, out |-> Trunc(mix_u128(s), 64), panic |-> FALSE]
StreamNLARXu128_next_u32(state) ==
    LET s == StreamNLARXu128_advance(state, {0})
    IN [state |-> s, out |-> Trunc(mix_u128(s), 32), panic |-> FALSE]
StreamNLARXu128_reseed(state, seed) == Shl(seed, 64, 128) \cup INITIAL_STATE
\* a faulty seek: the seed half is dropped
StreamNLARXu128_seek_counter_only(state, counter) == counter
StreamNLARXu128_seek(state, counter) == (state \cap HIGH_64) \cup counter

(***************************************************************************)
(* rngs.rs: xorshift.  state[0..3] of the source is state[1..4] here.      *)
(***************************************************************************)
XORShift128_new(seed) ==
    <<Trunc(seed, 32), Trunc(Shr(seed, 32), 32),
      Trunc(seed, 32), Trunc(Shr(seed, 32), 32)>>
XORShift128_next_u32(state) ==
    LET t0 == state[4]
        s == state[1]
        t1 == Xor(t0, Shl(t0, 11, 32))
        t2 == Xor(t1, Shr(t1, 8))
        new0 == Xor(Xor(t2, s), Shr(s, 19))
    IN [state |-> <<new0, s, state[2], state[3]>>, out |-> new0,
        panic |-> FALSE]
XORShift128_next(state) ==
    LET a == XORShift128_next_u32(state)
        b == XORShift128_next_u32(a.state)
    IN [state |-> b.state, out |-> Shl(a.out, 32, 64) \cup b.out,
        panic |-> FALSE]
RECURSIVE XORShift128_advance(_, _)
XORShift128_advance(state, delta) ==
    IF delta = 0 THEN state
    ELSE XORShift128_advance(XORShift128_next_u32(state).state, delta - 1)
XORShift128_reseed(state, seed) ==
    <<Trunc(seed, 32), Trunc(Shr(seed, 32), 32),
      Trunc(seed, 32), Trunc(Shr(seed, 32), 32)>>

(***************************************************************************)
(* rngs.rs: lcg::Randu.  `self.state * 65539` is a plain u32                *)
(* multiplication: with overflow checks on it panics when the product does *)
(* not fit 32 bits, with them off it wraps.                                *)
(***************************************************************************)
RANDU_MULTIPLIER == BitsOfNat(65539)

Randu_next_small(state) ==
    LET product == WrappingMul(state, RANDU_MULTIPLIER, 64)
        overflow == product \cap (32..63) /= {}
        wrapped == Trunc(product, 32) \cap Mask(31)
    IN IF overflow /\ overflow_checks
       THEN [state |-> state, out |-> {}, panic |-> TRUE]
       ELSE [state |-> wrapped, out |-> wrapped, panic |-> FALSE]

Randu_new(seed) == Trunc(seed, 32)
Randu_next_u32(state) ==
    LET a == Randu_next_small(state)
        b == IF a.panic THEN a ELSE Randu_next_small(a.state)
    IN IF b.panic THEN b
       ELSE [state |-> b.state,
             out |-> Shl(a.out, 15, 32) \cup (b.out \cap Mask(16)),
             panic |-> FALSE]
Randu_next(state) ==
    LET a == Randu_next_small(state)
        b == IF a.panic THEN a ELSE Randu_next_small(a.state)
        c == IF b.panic THEN b ELSE Randu_next_small(b.state)
    IN IF c.panic THEN c
       ELSE [state |-> c.state,
             out |-> Shl(a.out, 42, 64)
                     \cup Shl(b.out \cap Mask(22), 20, 64)
                     \cup (c.out \cap Mask(20)),
             panic |-> FALSE]
RECURSIVE Randu_advance(_, _)
Randu_advance(state, delta) ==
    IF delta = 0 THEN [state |-> state, out |-> {}, panic |-> FALSE]
    ELSE LET a == Randu_next_small(state)
         IN IF a.panic THEN a ELSE Randu_advance(a.state, delta - 1)
Randu_reseed(state, seed) == Trunc(seed, 32)

(***************************************************************************)
(* rngs.rs: lcg::Mmix                                                      *)
(***************************************************************************)
MMIX_MUL == HexBits(<<5,8,5,1,15,4,2,13,4,12,9,5,7,15,2,13>>)
MMIX_ADD == HexBits(<<1,4,0,5,7,11,7,14,15,7,6,7,8,1,4,15>>)

Mmix_new(seed) == seed
Mmix_next(state) ==
    LET s == WrappingAdd(WrappingMul(state, MMIX_MUL, 64), MMIX_ADD, 64)
    IN [state |-> s, out |-> s, panic |-> FALSE]
Mmix_next_u32(state) ==
    LET r == Mmix_next(state) IN [r EXCEPT !.out = Trunc(@, 32)]
RECURSIVE Mmix_advance(_, _)
Mmix_advance(state, delta) ==
    IF delta = 0 THEN state ELSE Mmix_advance(Mmix_next(state).state, delta - 1)
Mmix_reseed(state, seed) == seed

(***************************************************************************)
(* rngs.rs: lcg::UlsLcg512 and lcg::UlsLcg512H                             *)
(***************************************************************************)
\* (hi as u128) << 64 | lo as u128
Join128(hi, lo) == Shl(hi, 64, 128) \cup lo

UlsLcg_seed_state(seed) ==
    <<Join128(Not(seed, 64), Not(seed, 64)),
      Join128(seed, seed),
      Join128(seed, Not(seed, 64)),
      Join128(Not(seed, 64), seed)>>

ULS_MUL ==
    <<HexBits(<<5,9,12,10,1,11,2,8,8,8,10,0,10,8,0,15,
                12,0,5,4,12,13,2,5,11,1,15,13,14,3,1,1>>),
      HexBits(<<10,13,14,4,7,15,9,8,5,9,5,4,6,11,10,0,
                9,4,5,7,3,14,7,12,2,1,9,4,10,9,3,12>>),
      HexBits(<<8,5,15,14,12,3,9,14,4,8,3,3,13,5,7,13,
                13,0,7,15,9,0,3,15,1,9,1,14,12,15,13,3>>),
      HexBits(<<12,13,15,3,0,9,0,7,5,8,4,15,7,14,1,5,
                5,1,12,0,6,6,7,3,5,3,1,0,8,11,6,3>>)>>
ULS_ADD ==
    <<HexBits(<<10,5,3,10,3,8,5,4,13,7,4,0,13,2,2,11,
                4,8,0,2,15,2,14,6,14,10,0,1,14,3,5,0>>),
      HexBits(<<12,7,7,10,0,7,2,8,3,0,9,1,4,8,11,9,
                5,1,4,3,7,9,5,13,6,5,7,10,2,9,15,2>>),
      HexBits(<<7,7,4,2,1,15,2,10,5,9,13,15,2,3,0,5,
                7,3,9,15,3,3,7,10,15,12,10,13,9,14,13,11>>),
      HexBits(<<9,3,5,15,14,12,8,8,14,10,11,10,8,12,3,9,
                14,9,4,5,0,3,5,8,7,12,2,2,12,14,9,9>>)>>
ULSH_MUL ==
    <<HexBits(<<14,7,5,1,3,9,2,7,11,15,9,6,4,9,2,1,
                3,5,14,5,0,3,14,13,7,15,5,11,8,3,7,14>>),
      HexBits(<<6,4,2,0,15,10,15,10,3,8,11,13,7,13,8,1,
                15,12,0,2,14,8,12,11,15,10,12,5,7,6,9,8>>),
      HexBits(<<3,0,7,2,15,9,5,6,15,9,13,4,10,9,5,3,
                1,14,15,13,7,12,4,11,13,3,15,6,8,4,15,5>>),
      HexBits(<<10,7,11,5,11,1,2,13,12,7,6,6,10,0,3,12,
                15,13,11,10,15,5,4,11,10,12,10,12,8,3,8,2>>)>>
ULSH_ADD ==
    <<HexBits(<<1,2,6,11,0,6,12,2,11,15,14,2,13,10,12,7,
                7,2,5,14,14,6,6,12,0,14,1,14,15,14,6,9>>),
      HexBits(<<13,2,10,8,8,4,13,8,14,13,6,5,10,4,2,5,
                9,9,9,15,6,7,10,11,15,10,9,0,1,14,11,10>>),
      HexBits(<<2,15,1,8,12,6,7,9,12,5,4,10,5,8,1,10,
                14,15,3,15,8,8,14,15,10,9,7,3,13,2,12,9>>),
      HexBits(<<11,1,2,12,8,2,13,5,13,15,1,12,4,14,3,3,
                15,13,2,0,7,11,10,1,0,7,11,9,12,6,2,0>>)>>

\* the four LCG steps shared by both generators
UlsLcg_step(state, mul, add) ==
    <<WrappingAdd(WrappingMul(state[1], mul[1], 128), add[1], 128),
      WrappingAdd(WrappingMul(state[2], mul[2], 128), add[2], 128),
      WrappingAdd(WrappingMul(state[3], mul[3], 128), add[3], 128),
      WrappingAdd(WrappingMul(state[4], mul[4], 128), add[4], 128)>>

UlsLcg512_new(seed) == UlsLcg_seed_state(seed)
UlsLcg512_next(state) ==
    LET s == UlsLcg_step(state, ULS_MUL, ULS_ADD)
    IN [state |-> s,
        out |-> Xor(Xor(Trunc(Shr(s[1], 64), 64), Trunc(Shr(s[2], 64), 64)),
                    Xor(Trunc(Shr(s[3], 64), 64), Trunc(Shr(s[4], 64), 64))),
        panic |-> FALSE]
UlsLcg512_next_u32(state) ==
    LET r == UlsLcg512_next(state) IN [r EXCEPT !.out = Trunc(@, 32)]
RECURSIVE UlsLcg512_advance(_, _)
UlsLcg512_advance(state, delta) ==
    IF delta = 0 THEN state
    ELSE UlsLcg512_advance(UlsLcg512_next(state).state, delta - 1)
UlsLcg512_reseed(state, seed) == UlsLcg_seed_state(seed)

UlsLcg512H_new(seed) == UlsLcg_seed_state(seed)
UlsLcg512H_next(state) ==
    LET s == UlsLcg_step(state, ULSH_MUL, ULSH_ADD)
        sum == WrappingAdd(s[1],
                   WrappingAdd(s[2], WrappingAdd(s[3], s[4], 128), 128), 128)
    IN [state |-> s, out |-> Trunc(Shr(sum, 64), 64), panic |-> FALSE]
UlsLcg512H_next_u32(state) ==
    LET r == UlsLcg512H_next(state) IN [r EXCEPT !.out = Trunc(@, 32)]
RECURSIVE UlsLcg512H_advance(_, _)
UlsLcg512H_advance(state, delta) ==
    IF delta = 0 THEN state
    ELSE UlsLcg512H_advance(UlsLcg512H_next(state).state, delta - 1)
UlsLcg512H_reseed(state, seed) == UlsLcg_seed_state(seed)

(***************************************************************************)
(* rngs.rs: lcg::Lehmer64                                                  *)
(***************************************************************************)
LEHMER_MUL == HexBits(<<13,10,9,4,2,0,4,2,14,4,13,13,5,8,11,5>>)

Lehmer64_new(seed) == Join128(seed, seed)
Lehmer64_next(state) ==
    LET s == WrappingMul(state, LEHMER_MUL, 128)
    IN [state |-> s, out |-> Trunc(Shr(s, 64), 64), panic |-> FALSE]
Lehmer64_next_u32(state) ==
    LET r == Lehmer64_next(state) IN [r EXCEPT !.out = Trunc(@, 32)]
RECURSIVE Lehmer64_advance(_, _)
Lehmer64_advance(state, delta) ==
    IF delta = 0 THEN state
    ELSE Lehmer64_advance(Lehmer64_next(state).state, delta - 1)
Lehmer64_reseed(state, seed) == Join128(seed, seed)


(***************************************************************************)
(* rngs.rs: spn::RijndaelStream.  _mm_aesenc_si128 is one AES round:       *)
(* ShiftRows, SubBytes, MixColumns, then XOR with the round key.  Byte i   *)
(* of a 128-bit register is bits 8i..8i+7 and holds the AES state byte of  *)
(* row i % 4, column i \div 4.                                              *)
(***************************************************************************)
AES_SBOX ==
    <<
       99, 124, 119, 123, 242, 107, 111, 197,  48,   1, 103,  43, 254, 215, 171, 118,
      202, 130, 201, 125, 250,  89,  71, 240, 173, 212, 162, 175, 156, 164, 114, 192,
      183, 253, 147,  38,  54,  63, 247, 204,  52, 165, 229, 241, 113, 216,  49,  21,
        4, 199,  35, 195,  24, 150,   5, 154,   7,  18, 128, 226, 235,  39, 178, 117,
        9, 131,  44,  26,  27, 110,  90, 160,  82,  59, 214, 179,  41, 227,  47, 132,
       83, 209,   0, 237,  32, 252, 177,  91, 106, 203, 190,  57,  74,  76,  88, 207,
      208, 239, 170, 251,  67,  77,  51, 133,  69, 249,   2, 127,  80,  60, 159, 168,
       81, 163,  64, 143, 146, 157,  56, 245, 188, 182, 218,  33,  16, 255, 243, 210,
      205,  12,  19, 236,  95, 151,  68,  23, 196, 167, 126,  61, 100,  93,  25, 115,
       96, 129,  79, 220,  34,  42, 144, 136,  70, 238, 184,  20, 222,  94,  11, 219,
      224,  50,  58,  10,  73,   6,  36,  92, 194, 211, 172,  98, 145, 149, 228, 121,
      231, 200,  55, 109, 141, 213,  78, 169, 108,  86, 244, 234, 101, 122, 174,   8,
      186, 120,  37,  46,  28, 166, 180, 198, 232, 221, 116,  31,  75, 189, 139, 138,
      112,  62, 181, 102,  72,   3, 246,  14,  97,  53,  87, 185, 134, 193,  29, 158,
      225, 248, 152,  17, 105, 217, 142, 148, 155,  30, 135, 233, 206,  85,  40, 223,
      140, 161, 137,  13, 191, 230,  66, 104,  65, 153,  45,  15, 176,  84, 187,  22
    >>

AesShiftRows(block) ==
    UNION {PutByte(ByteAt(block, (i % 4) + 4 * (((i \div 4) + (i % 4)) % 4)), i)
           : i \in 0..15}
AesSubBytes(block) ==
    UNION {PutByte(BitsOfByte(AES_SBOX[ByteVal(ByteAt(block, i)) + 1]), i)
           : i \in 0..15}
\* multiplication by x in GF(2^8) modulo x^8 + x^4 + x^3 + x + 1
AesXtime(byte) ==
    IF 7 \in byte THEN Xor(Shl(byte, 1, 8), {0, 1, 3, 4}) ELSE Shl(byte, 1, 8)
AesMixColumn(block, c, r) ==
    LET s0 == ByteAt(block, 4 * c + r)
        s1 == ByteAt(block, 4 * c + ((r + 1) % 4))
        s2 == ByteAt(block, 4 * c + ((r + 2) % 4))
        s3 == ByteAt(block, 4 * c + ((r + 3) % 4))
    IN Xor(Xor(AesXtime(s0), Xor(AesXtime(s1), s1)), Xor(s2, s3))
AesMixColumns(block) ==
    UNION {PutByte(AesMixColumn(block, i \div 4, i % 4), i) : i \in 0..15}

mm_aesenc_si128(block, key) ==
    Xor(AesMixColumns(AesSubBytes(AesShiftRows(block))), key)

RECURSIVE aesenc_rounds(_, _, _)
aesenc_rounds(block, key, n) ==
    IF n = 0 THEN block
    ELSE aesenc_rounds(mm_aesenc_si128(block, key), key, n - 1)

\* key[0..8] = seed.to_le_bytes(), key[8..16] = (!seed).to_le_bytes()
RijndaelStream_key(seed) == Join128(Not(seed, 64), seed)

\* `self.counter += delta as u128` is a checked addition at 128 bits
RijndaelStream_advance(state, delta) ==
    LET sum == WrappingAdd(state.counter, delta, 136)
    IN IF 128 \in sum /\ overflow_checks
       THEN [state |-> state, out |-> {}, panic |-> TRUE]
       ELSE [state |-> [state EXCEPT !.counter = Trunc(sum, 128)],
             out |-> {}, panic |-> FALSE]

RijndaelStream_new(seed) == [counter |-> {}, key |-> RijndaelStream_key(seed)]
RijndaelStream_next(state) ==
    LET a == RijndaelStream_advance(state, {0})
    IN IF a.panic THEN a
       ELSE [state |-> a.state,
             out |-> Trunc(aesenc_rounds(a.state.counter, a.state.key, 4), 64),
             panic |-> FALSE]
RijndaelStream_next_u32(state) ==
    LET r == RijndaelStream_next(state) IN [r EXCEPT !.out = Trunc(@, 32)]
RijndaelStream_reseed(state, seed) ==
    [state EXCEPT !.key = RijndaelStream_key(seed)]
RijndaelStream_seek(state, counter) == [state EXCEPT !.counter = counter]

(***************************************************************************)
(* rngs.rs: testgens.  The unit structs have no state: {}.                 *)
(***************************************************************************)
OnlyOne_new(seed) == {}
OnlyOne_next_u32(state) == [state |-> state, out |-> Mask(32), panic |-> FALSE]
OnlyOne_next(state) == [state |-> state, out |-> U64_MAX, panic |-> FALSE]
OnlyOne_advance(state, delta) == state
OnlyOne_reseed(state, seed) == state

OnlyZero_new(seed) == {}
OnlyZero_next_u32(state) == [state |-> state, out |-> {}, panic |-> FALSE]
OnlyZero_next(state) == [state |-> state, out |-> {}, panic |-> FALSE]
OnlyZero_advance(state, delta) == state
OnlyZero_reseed(state, seed) == state

AlternatingBlocks_new(seed) == {}
\* a faulty advance: the state flips whatever the parity of delta
AlternatingBlocks_advance_always(state, delta) == Not(state, 64)
AlternatingBlocks_advance(state, delta) ==
    IF 0 \in delta THEN Not(state, 64) ELSE state
\* a faulty next: the state is returned without the flip
AlternatingBlocks_next_no_advance(state) ==
    [state |-> state, out |-> state, panic |-> FALSE]
AlternatingBlocks_next(state) ==
    LET s == AlternatingBlocks_advance(state, {0})
    IN [state |-> s, out |-> s, panic |-> FALSE]
AlternatingBlocks_next_u32(state) ==
    LET r == AlternatingBlocks_next(state) IN [r EXCEPT !.out = Trunc(@, 32)]
AlternatingBlocks_reseed(state, seed) == state

ALTERNATING_BYTES_32 == HexBits(<<15,15,0,0,15,15,0,0>>)
ALTERNATING_BYTES_64 == HexBits(<<15,15,0,0,15,15,0,0,15,15,0,0,15,15,0,0>>)

AlternatingBytes_new(seed) == {}
AlternatingBytes_next_u32(state) ==
    [state |-> state, out |-> ALTERNATING_BYTES_32, panic |-> FALSE]
AlternatingBytes_next(state) ==
    [state |-> state, out |-> ALTERNATING_BYTES_64, panic |-> FALSE]
AlternatingBytes_advance(state, delta) == state
AlternatingBytes_reseed(state, seed) == state

(***************************************************************************)
(* rngs.rs: trait RNG.  A generator is [kind, state]; each trait method    *)
(* dispatches on the kind.  next, next_u32 and advance return              *)
(* [rng, out, panic]; seeds, deltas and counters are 64-bit words.         *)
(***************************************************************************)
SeekKinds == {"StreamNLARXu128", "RijndaelStream"}
\* advance() is a loop of delta steps in these
LoopKinds == {"ReferenceRand", "XORShift128", "Randu", "Mmix", "UlsLcg512",
              "UlsLcg512H", "Lehmer64"}
Kinds == LoopKinds \cup SeekKinds \cup
         {"OnlyOne", "OnlyZero", "AlternatingBlocks", "AlternatingBytes"}

Ok(state) == [state |-> state, out |-> {}, panic |-> FALSE]

RNG_new(kind, seed) ==
    [kind |-> kind,
     state |->
        CASE kind = "ReferenceRand" -> ReferenceRand_new(seed)
          [] kind = "StreamNLARXu128" -> StreamNLARXu128_new(seed)
          [] kind = "XORShift128" -> XORShift128_new(seed)
          [] kind = "Randu" -> Randu_new(seed)
          [] kind = "Mmix" -> Mmix_new(seed)
          [] kind = "UlsLcg512" -> UlsLcg512_new(seed)
          [] kind = "UlsLcg512H" -> UlsLcg512H_new(seed)
          [] kind = "Lehmer64" -> Lehmer64_new(seed)
          [] kind = "RijndaelStream" -> RijndaelStream_new(seed)
          [] kind = "OnlyOne" -> OnlyOne_new(seed)
          [] kind = "OnlyZero" -> OnlyZero_new(seed)
          [] kind = "AlternatingBlocks" -> AlternatingBlocks_new(seed)
          [] kind = "AlternatingBytes" -> AlternatingBytes_new(seed)]

\* a method's result with the generator put back around the new state
Wrap(g, r) ==
    [rng |-> [g EXCEPT !.state = r.state], out |-> r.out, panic |-> r.panic]

RNG_next_u32(g) ==
    Wrap(g,
        CASE g.kind = "ReferenceRand" -> ReferenceRand_next_u32(g.state)
          [] g.kind = "StreamNLARXu128" -> StreamNLARXu128_next_u32(g.state)
          [] g.kind = "XORShift128" -> XORShift128_next_u32(g.state)
          [] g.kind = "Randu" -> Randu_next_u32(g.state)
          [] g.kind = "Mmix" -> Mmix_next_u32(g.state)
          [] g.kind = "UlsLcg512" -> UlsLcg512_next_u32(g.state)
          [] g.kind = "UlsLcg512H" -> UlsLcg512H_next_u32(g.state)
          [] g.kind = "Lehmer64" -> Lehmer64_next_u32(g.state)
          [] g.kind = "RijndaelStream" -> RijndaelStream_next_u32(g.state)
          [] g.kind = "OnlyOne" -> OnlyOne_next_u32(g.state)
          [] g.kind = "OnlyZero" -> OnlyZero_next_u32(g.state)
          [] g.kind = "AlternatingBlocks" -> AlternatingBlocks_next_u32(g.state)
          [] g.kind = "AlternatingBytes" -> AlternatingBytes_next_u32(g.state))

RNG_next(g) ==
    Wrap(g,
        CASE g.kind = "ReferenceRand" -> ReferenceRand_next(g.state)
          [] g.kind = "StreamNLARXu128" -> StreamNLARXu128_next(g.state)
          [] g.kind = "XORShift128" -> XORShift128_next(g.state)
          [] g.kind = "Randu" -> Randu_next(g.state)
          [] g.kind = "Mmix" -> Mmix_next(g.state)
          [] g.kind = "UlsLcg512" -> UlsLcg512_next(g.state)
          [] g.kind = "UlsLcg512H" -> UlsLcg512H_next(g.state)
          [] g.kind = "Lehmer64" -> Lehmer64_next(g.state)
          [] g.kind = "RijndaelStream" -> RijndaelStream_next(g.state)
          [] g.kind = "OnlyOne" -> OnlyOne_next(g.state)
          [] g.kind = "OnlyZero" -> OnlyZero_next(g.state)
          [] g.kind = "AlternatingBlocks" -> AlternatingBlocks_next(g.state)
          [] g.kind = "AlternatingBytes" -> AlternatingBytes_next(g.state))

\* the loops take delta as a count; it is small whenever they are called
RNG_advance(g, delta) ==
    Wrap(g,
        CASE g.kind = "ReferenceRand" ->
                Ok(ReferenceRand_advance(g.state, NatOfBits(delta)))
          [] g.kind = "StreamNLARXu128" ->
                Ok(StreamNLARXu128_advance(g.state, delta))
          [] g.kind = "XORShift128" ->
                Ok(XORShift128_advance(g.state, NatOfBits(delta)))
          [] g.kind = "Randu" -> Randu_advance(g.state, NatOfBits(delta))
          [] g.kind = "Mmix" -> Ok(Mmix_advance(g.state, NatOfBits(delta)))
          [] g.kind = "UlsLcg512" ->
                Ok(UlsLcg512_advance(g.state, NatOfBits(delta)))
          [] g.kind = "UlsLcg512H" ->
                Ok(UlsLcg512H_advance(g.state, NatOfBits(delta)))
          [] g.kind = "Lehmer64" ->
                Ok(Lehmer64_advance(g.state, NatOfBits(delta)))
          [] g.kind = "RijndaelStream" -> RijndaelStream_advance(g.state, delta)
          [] g.kind = "OnlyOne" -> Ok(OnlyOne_advance(g.state, delta))
          [] g.kind = "OnlyZero" -> Ok(OnlyZero_advance(g.state, delta))
          [] g.kind = "AlternatingBlocks" ->
                Ok(AlternatingBlocks_advance(g.state, delta))
          [] g.kind = "AlternatingBytes" ->
                Ok(AlternatingBytes_advance(g.state, delta)))

RNG_reseed(g, seed) ==
    [g EXCEPT !.state =
        CASE g.kind = "ReferenceRand" -> ReferenceRand_reseed(g.state, seed)
          [] g.kind = "StreamNLARXu128" -> StreamNLARXu128_reseed(g.state, seed)
          [] g.kind = "XORShift128" -> XORShift128_reseed(g.state, seed)
          [] g.kind = "Randu" -> Randu_reseed(g.state, seed)
          [] g.kind = "Mmix" -> Mmix_reseed(g.state, seed)
          [] g.kind = "UlsLcg512" -> UlsLcg512_reseed(g.state, seed)
          [] g.kind = "UlsLcg512H" -> UlsLcg512H_reseed(g.state, seed)
          [] g.kind = "Lehmer64" -> Lehmer64_reseed(g.state, seed)
          [] g.kind = "RijndaelStream" -> RijndaelStream_reseed(g.state, seed)
          [] g.kind = "OnlyOne" -> OnlyOne_reseed(g.state, seed)
          [] g.kind = "OnlyZero" -> OnlyZero_reseed(g.state, seed)
          [] g.kind = "AlternatingBlocks" ->
                AlternatingBlocks_reseed(g.state, seed)
          [] g.kind = "AlternatingBytes" ->
                AlternatingBytes_reseed(g.state, seed)]

\* seek exists on StreamNLARXu128 and RijndaelStream only
RNG_seek(g, counter) ==
    [g EXCEPT !.state =
        CASE g.kind = "StreamNLARXu128" -> StreamNLARXu128_seek(g.state, counter)
          [] g.kind = "RijndaelStream" -> RijndaelStream_seek(g.state, counter)]

(***************************************************************************)
(* utils.rs: the rank of a 32x32 matrix over GF(2).  A matrix is a tuple   *)
(* of 32 rows; row r of the source is matrix[r + 1], and column c is bit   *)
(* 31 - c of the row.                                                      *)
(***************************************************************************)
MAXTRIX_SIZE == 32

col_mask(col) == MAXTRIX_SIZE - col - 1

swap(mat, a, b) == [mat EXCEPT ![a + 1] = mat[b + 1], ![b + 1] = mat[a + 1]]

\* the 32 rows F(0), ..., F(31) as a matrix
Rows(F(_)) ==
    <<F(0), F(1), F(2), F(3), F(4), F(5), F(6), F(7),
      F(8), F(9), F(10), F(11), F(12), F(13), F(14), F(15),
      F(16), F(17), F(18), F(19), F(20), F(21), F(22), F(23),
      F(24), F(25), F(26), F(27), F(28), F(29), F(30), F(31)>>

\* XOR pivot_val into each of the rows row..to that has the mask bit
EliminateRows(mat, row, to, mask, pivot_val) ==
    Rows(LAMBDA r : IF r \in row..to /\ mask \in mat[r + 1]
                    THEN Xor(mat[r + 1], pivot_val) ELSE mat[r + 1])

\* a faulty turn: the pivot is looked for from the first row on
RankColumnFromTop(st, col_index) ==
    LET mat == st.mat
        mask == col_mask(col_index)
        found == {r \in 0..(MAXTRIX_SIZE - 1) : mask \in mat[r + 1]}
    IN IF found = {} THEN st
       ELSE LET pivot_row == CHOOSE r \in found : \A q \in found : r <= q
                swapped == swap(mat, st.rank, pivot_row)
            IN [mat |-> EliminateRows(swapped, st.rank + 1, MAXTRIX_SIZE - 1,
                                      mask, swapped[st.rank + 1]),
                rank |-> st.rank + 1]

\* one turn of the column loop, on the matrix and the rank so far
RankColumn(st, col_index) ==
    LET mat == st.mat
        mask == col_mask(col_index)
        found == {r \in st.rank..(MAXTRIX_SIZE - 1) : mask \in mat[r + 1]}
    IN IF found = {} THEN st
       ELSE LET pivot_row == CHOOSE r \in found : \A q \in found : r <= q
                swapped == swap(mat, st.rank, pivot_row)
            IN [mat |-> EliminateRows(swapped, st.rank + 1, MAXTRIX_SIZE - 1,
                                      mask, swapped[st.rank + 1]),
                rank |-> st.rank + 1]

\* the turns for the columns lo..hi, in order (the range is halved to keep
\* the evaluation shallow)
RECURSIVE RankColumns(_, _, _)
RankColumns(st, lo, hi) ==
    IF lo = hi THEN RankColumn(st, lo)
    ELSE LET mid == (lo + hi) \div 2
             left == RankColumns(st, lo, mid)
         IN After(left, RankColumns(left, mid + 1, hi))

rank_binary_matrix(mat) ==
    RankColumns([mat |-> mat, rank |-> 0], 0, MAXTRIX_SIZE - 1).rank

\* the forward step of one column: swap a one up to the diagonal from the
\* first row below that has it, then clear the column below
NistForwardColumn(mat, col) ==
    LET mask == col_mask(col)
        below == {r \in (col + 1)..(MAXTRIX_SIZE - 1) : mask \in mat[r + 1]}
        m1 == IF mask \notin mat[col + 1] /\ below # {}
              THEN swap(mat, CHOOSE r \in below : \A q \in below : r <= q, col)
              ELSE mat
    IN IF mask \in m1[col + 1]
       THEN EliminateRows(m1, col + 1, MAXTRIX_SIZE - 1, mask, m1[col + 1])
       ELSE m1

\* the forward steps of the columns lo..hi, ascending
RECURSIVE NistForward(_, _, _)
NistForward(mat, lo, hi) ==
    IF lo = hi THEN NistForwardColumn(mat, lo)
    ELSE LET mid == (lo + hi) \div 2
             left == NistForward(mat, lo, mid)
         IN After(left, NistForward(left, mid + 1, hi))

\* a faulty reverse step: nothing is done
NistReverseColumnSkipped(mat, col) == mat

\* the reverse step of one column: the same, upwards
NistReverseColumn(mat, col) ==
    LET mask == col_mask(col)
        above == {r \in 0..(col - 1) : mask \in mat[r + 1]}
        m1 == IF mask \notin mat[col + 1] /\ above # {}
              THEN swap(mat, CHOOSE r \in above : \A q \in above : r >= q, col)
              ELSE mat
    IN IF mask \in m1[col + 1]
       THEN EliminateRows(m1, 0, col - 1, mask, m1[col + 1])
       ELSE m1

\* the reverse steps of the columns hi..lo, descending
RECURSIVE NistReverse(_, _, _)
NistReverse(mat, lo, hi) ==
    IF lo = hi THEN NistReverseColumn(mat, lo)
    ELSE LET mid == (lo + hi) \div 2
             right == NistReverse(mat, mid + 1, hi)
         IN After(right, NistReverse(right, lo, mid))

rank_binary_matrix_nist(matrix_input) ==
    LET f == NistForward(matrix_input, 0, MAXTRIX_SIZE - 1)
        m == After(f, NistReverse(f, 0, MAXTRIX_SIZE - 1))
    IN MAXTRIX_SIZE - Cardinality({r \in 1..MAXTRIX_SIZE : m[r] = {}})

(***************************************************************************)
(* Floating point.  An f64 is NaN, an infinity or a number; a number is    *)
(* kept as an integer count of the unit of the quantity it measures:       *)
(* probabilities count steps of 2^-MaxExp (so the grid holds 0, 1, every   *)
(* 2^-e and every 1 - 2^-e up to e = MaxExp), logarithms count ones, and   *)
(* log-statistics count ten-thousandths.                                   *)
(***************************************************************************)
MaxExp == 20
PUnit == 2 ^ MaxExp

F_NAN == [k |-> "nan", v |-> 0]
F_INF == [k |-> "inf", v |-> 0]
F_NEG_INF == [k |-> "neg_inf", v |-> 0]
Num(v) == [k |-> "num", v |-> v]

\* a < b as IEEE compares: false when either side is NaN
F_Lt(a, b) ==
    /\ a.k # "nan" /\ b.k # "nan"
    /\ \/ a.k = "neg_inf" /\ b.k # "neg_inf"
       \/ a.k # "inf" /\ b.k = "inf"
       \/ a.k = "num" /\ b.k = "num" /\ a.v < b.v
F_Le(a, b) == a.k # "nan" /\ b.k # "nan" /\ (a = b \/ F_Lt(a, b))

\* f64::min as an operator that lets a NaN operand win
f64_min_propagating(a, b) ==
    IF a.k = "nan" \/ b.k = "nan" THEN F_NAN
    ELSE IF F_Lt(b, a) THEN b ELSE a

\* f64::min: the smaller operand; if one operand is NaN, the other one
f64_min(a, b) ==
    IF a.k = "nan" THEN b
    ELSE IF b.k = "nan" THEN a
    ELSE IF F_Lt(b, a) THEN b ELSE a

\* f64::clamp: NaN stays NaN
f64_clamp(x, min, max) ==
    IF x.k = "nan" THEN x
    ELSE IF F_Lt(x, min) THEN min
    ELSE IF F_Lt(max, x) THEN max
    ELSE x

\* the probabilities of the grid
P_ZERO == Num(0)
P_ONE == Num(PUnit)
P_Low(e) == Num(2 ^ (MaxExp - e))
P_High(e) == Num(PUnit - 2 ^ (MaxExp - e))
Interior == {P_Low(e) : e \in 1..MaxExp} \cup {P_High(e) : e \in 2..MaxExp}
Grid == Interior \cup {P_ZERO, P_ONE}

\* 1.0 - p
OneMinus(p) == IF p.k = "num" THEN Num(PUnit - p.v) ELSE F_NAN

\* f64::log2 of a grid value: exact on the powers of two
f64_log2(x) ==
    IF x.k # "num" \/ x.v < 0 THEN F_NAN
    ELSE IF x.v = 0 THEN F_NEG_INF
    ELSE Num(0 - (CHOOSE e \in 0..MaxExp : 2 ^ (MaxExp - e) = x.v))

(***************************************************************************)
(* statrs and libm.  The tests know their statistic only by its sign       *)
(* class -- "nan", "zero", "pos" (finite and positive), "nonneg" (zero or  *)
(* positive, where rounding decides) or "inf" -- and a special function    *)
(* returns, for a finite positive argument, any value of its range; the    *)
(* drift of the last digits may leave [0, 1] by a step.  Where a test      *)
(* needs more, the class tells how large the argument is: "moderate" is    *)
(* positive and below 26, where erfc is a positive f64 below 1 or rounds   *)
(* to 1; "huge" is 28 or more, where erfc underflows to 0.0; "above" is    *)
(* an x of gamma_lr(a, x) that is at least a, the mean of the              *)
(* distribution, where the lower tail is a half or more.                   *)
(***************************************************************************)
Drifted == Grid \cup {Num(0 - 1), Num(PUnit + 1)}

\* statrs::function::erf::erfc on x >= 0
erfc(x) ==
    CASE x = "nan" -> {F_NAN}
      [] x = "zero" -> {P_ONE}
      [] x = "inf" -> {P_ZERO}
      [] x = "moderate" -> Interior \cup {P_ONE}
      [] x = "huge" -> {P_ZERO}
      [] x = "pos" -> Drifted
      [] x = "nonneg" -> Drifted

\* statrs::function::gamma::gamma_lr and gamma_ur: NaN for a NaN
\* argument, a value of the range for finite positive arguments
gamma_lr(a, x) ==
    IF a = "nan" \/ x = "nan" THEN {F_NAN}
    ELSE IF x = "above" THEN {p \in Drifted : 2 * p.v >= PUnit}
    ELSE Drifted
gamma_ur(a, x) ==
    IF a = "nan" \/ x = "nan" THEN {F_NAN} ELSE Drifted

\* exp(-x / 2) for x >= 0
exp_neg_half(x) ==
    CASE x = "nan" -> {F_NAN}
      [] x = "zero" -> {P_ONE}
      [] x = "inf" -> {P_ZERO}
      [] x = "pos" -> Grid
      [] x = "nonneg" -> Grid

\* .clamp(0.0, 1.0) on every value a call may return
Clamped(ps) == {f64_clamp(p, P_ZERO, P_ONE) : p \in ps}

(***************************************************************************)
(* stats.rs.  A buffer is a tuple of 64-bit words.                         *)
(***************************************************************************)
\* the sum of s[lo..hi], folded by halves
RECURSIVE SumOf(_, _, _)
SumOf(s, lo, hi) ==
    IF lo > hi THEN 0
    ELSE IF lo = hi THEN s[lo]
    ELSE LET mid == (lo + hi) \div 2
         IN SumOf(s, lo, mid) + SumOf(s, mid + 1, hi)

SetMax(S) == CHOOSE m \in S : \A x \in S : m >= x

count_ones(word) == Cardinality(word)
leading_zeros(word, w) == IF word = {} THEN w ELSE w - 1 - SetMax(word)
trailing_ones(word) ==
    CHOOSE t \in 0..64 : (t = 64 \/ t \notin word) /\ \A b \in 0..(t - 1) : b \in word

\* fast_log2 without the decrement of its argument
fast_log2_no_decrement(in_int) ==
    IF in_int = {} THEN 0 ELSE 64 - leading_zeros(in_int, 64)

\* utils.rs: fast_log2
fast_log2(in_int) ==
    IF in_int = {} THEN 0
    ELSE 64 - leading_zeros(WrappingAdd(in_int, U64_MAX, 64), 64)

\* sample_size calls of next(), folded by halves: [rng, data, panic]
RECURSIVE GenerateWords(_, _)
GenerateWords(g, n) ==
    IF n = 0 THEN [rng |-> g, data |-> <<>>, panic |-> FALSE]
    ELSE IF n = 1
    THEN LET r == RNG_next(g)
         IN [rng |-> r.rng,
             data |-> IF r.panic THEN <<>> ELSE <<r.out>>,
             panic |-> r.panic]
    ELSE LET left == GenerateWords(g, n \div 2)
         IN IF left.panic THEN left
            ELSE LET right == GenerateWords(left.rng, n - n \div 2)
                 IN [rng |-> right.rng,
                     data |-> left.data \o right.data,
                     panic |-> right.panic]

\* the buffer of generate_test_data; the measured speed is a clock reading
generate_test_data(test_rng, sample_size) == GenerateWords(test_rng, sample_size)

\* counts[by]: how many of the buffer's bytes have the value by
ByteCount(test_data, by) ==
    Cardinality({c \in (1..Len(test_data)) \X (0..7) :
                    ByteValAt(test_data[c[1]], c[2]) = by})

byte_distribution_test(test_data) ==
    IF test_data = <<>> THEN {P_ZERO}
    \* expected = len * 8 / 256; chi_squared is 0.0 when every count is it
    ELSE IF \A by \in 0..255 : 32 * ByteCount(test_data, by) = Len(test_data)
    THEN {P_ZERO}
    ELSE Clamped(gamma_lr("pos", "pos"))

EXPECTED_SAMPLE_COUNT == 16384

\* zero_count without the .max(1)
lz_zero_count_unclamped(len) ==
    fast_log2(BitsOfNat(len \div EXPECTED_SAMPLE_COUNT))
\* zero_count of leading_zeros_frequency_test
lz_zero_count(len) ==
    LET l == fast_log2(BitsOfNat(len \div EXPECTED_SAMPLE_COUNT))
    IN IF l > 1 THEN l ELSE 1
\* mask = u64::MAX >> (64 - zero_count)
lz_mask(len) == Shr(U64_MAX, 64 - lz_zero_count(len))

leading_zeros_frequency_test(test_data) ==
    IF test_data = <<>> THEN {P_ZERO}
    ELSE LET mask == lz_mask(Len(test_data))
             total_samples ==
                 Cardinality({i \in 1..Len(test_data) :
                                 test_data[i] \cap mask = {}})
         IN IF total_samples = 0 THEN {P_ZERO}
            ELSE Clamped(gamma_lr("pos", "pos"))

\* the i64 sum of count_ones - 32 that monobit_test and count_excess_ones take
OnesDifference(test_data) ==
    SumOf([i \in 1..Len(test_data) |-> count_ones(test_data[i]) - 32],
          1, Len(test_data))

\* the argument of erfc in monobit_test, x = |difference| / sqrt(64 n)
\* / sqrt(2): x * x = difference^2 / (128 n)
monobit_statistic(test_data) ==
    LET d == OnesDifference(test_data)
        n == Len(test_data)
    IN IF d = 0 THEN "zero"
       ELSE IF d * d >= 28 * 28 * 128 * n THEN "huge"
       ELSE IF d * d < 26 * 26 * 128 * n THEN "moderate"
       ELSE "pos"

\* monobit_test without its check for an empty buffer: 0 / sqrt(0)
monobit_test_unguarded(test_data) ==
    Clamped(erfc(IF test_data = <<>> THEN "nan"
                 ELSE monobit_statistic(test_data)))

monobit_test(test_data) ==
    IF test_data = <<>> THEN {P_ZERO}
    ELSE Clamped(erfc(monobit_statistic(test_data)))

count_excess_ones(test_data) ==
    IF test_data = <<>> THEN 0 ELSE OnesDifference(test_data)

\* 4096 times the sum of (count_ones / 64 - 0.5)^2
block_deviation(test_data) ==
    SumOf([i \in 1..Len(test_data) |->
              (count_ones(test_data[i]) - 32) * (count_ones(test_data[i]) - 32)],
          1, Len(test_data))

\* gamma_lr(len / 2, chi_squared / 2) with chi_squared = 256 * sum: the
\* second argument is block_deviation / 32, at least the first when
\* block_deviation >= 16 * len
u64_block_bit_frequency_test(test_data) ==
    IF test_data = <<>> THEN {P_ZERO}
    ELSE IF block_deviation(test_data) = 0 THEN {P_ZERO}
    ELSE Clamped(gamma_lr("pos",
             IF block_deviation(test_data) >= 16 * Len(test_data)
             THEN "above" ELSE "pos"))

\* what one word adds to runs; last_bit is the top bit of the word before
\* it, and of the first word itself for the first
runs_of_word(test_data, i) ==
    LET sample == test_data[i]
        last_bit == IF i = 1 THEN 63 \in test_data[1]
                    ELSE 63 \in test_data[i - 1]
    IN count_ones(Xor(sample, Shr(sample, 1)))
       + (IF (0 \in sample) # last_bit THEN 1 ELSE 0)
       - (IF 63 \in sample THEN 1 ELSE 0)

\* runs, as runs_test has it after its loop
runs_counted(test_data) ==
    SumOf([i \in 1..Len(test_data) |-> runs_of_word(test_data, i)],
          1, Len(test_data))

\* the argument of erfc in runs_test:
\* |runs - 2 r n (1 - r)| / (2 sqrt(2 n) r (1 - r)), r = ones / n
runs_statistic(test_data) ==
    LET num_bits == 64 * Len(test_data)
        ones == num_bits \div 2 + count_excess_ones(test_data)
        runs == runs_counted(test_data)
    IN IF ones = 0 \/ ones = num_bits
       \* the denominator is 0.0: 0/0 or x/0
       THEN IF runs = 0 THEN "nan" ELSE "inf"
       ELSE IF runs * num_bits = 2 * ones * (num_bits - ones)
       THEN "nonneg"
       ELSE "pos"

runs_test(test_data) ==
    IF test_data = <<>> THEN {P_ZERO}
    ELSE Clamped(erfc(runs_statistic(test_data)))

\* longest_ones_run
LONGEST_RUN_CHUNK == 128

\* the lengths of the maximal runs of ones of a word
RunLength(word, start) ==
    (CHOOSE e \in (start + 1)..64 :
        (e = 64 \/ e \notin word) /\ \A b \in start..(e - 1) : b \in word)
    - start
RunStarts(word) == {b \in word : b = 0 \/ (b - 1) \notin word}

\* one word of the inner loop, st = [last_bit, current_run, longest_run].
\* The while loop takes the runs of ones from bit 0 up, with a step of
\* ones = 0 before each run that does not start at bit 0: its first step
\* adds current_run to ones when last_bit is 1, a later step sees the
\* length of one run, and it leaves current_run at the topmost run.
longest_run_word(st, sample) ==
    IF sample = {}
    THEN [last_bit |-> 0, current_run |-> 0, longest_run |-> st.longest_run]
    ELSE LET first == trailing_ones(sample)
             runs == {RunLength(sample, s) : s \in RunStarts(sample)}
             joined == IF st.last_bit = 1 THEN first + st.current_run
                       ELSE first
         IN [last_bit |-> IF 63 \in sample THEN 1 ELSE 0,
             current_run |-> RunLength(sample, SetMax(RunStarts(sample))),
             longest_run |-> SetMax(runs \cup {joined, st.longest_run})]

\* the words lo..hi of the buffer, folded by halves
RECURSIVE longest_run_words(_, _, _, _)
longest_run_words(st, test_data, lo, hi) ==
    IF lo = hi THEN longest_run_word(st, test_data[lo])
    ELSE LET mid == (lo + hi) \div 2
             left == longest_run_words(st, test_data, lo, mid)
         IN After(left, longest_run_words(left, test_data, mid + 1, hi))

\* the bin of a chunk's longest run: <= 10, 11, 12, 13, 14, >= 15
longest_run_bin(longest_run) ==
    IF longest_run <= 10 THEN 0
    ELSE IF longest_run >= 15 THEN 5
    ELSE longest_run - 10

\* the chunks c_lo..c_hi (from 0), acc = [last_bit, current_run, bins]:
\* longest_run starts at 0 in each chunk, last_bit and current_run go on
RECURSIVE longest_run_chunks(_, _, _, _)
longest_run_chunks(acc, test_data, c_lo, c_hi) ==
    IF c_lo > c_hi THEN acc
    ELSE IF c_lo = c_hi
    THEN LET st == longest_run_words(
                       [last_bit |-> acc.last_bit,
                        current_run |-> acc.current_run,
                        longest_run |-> 0],
                       test_data,
                       c_lo * LONGEST_RUN_CHUNK + 1,
                       (c_lo + 1) * LONGEST_RUN_CHUNK)
         IN [last_bit |-> st.last_bit,
             current_run |-> st.current_run,
             bins |-> acc.bins \o <<longest_run_bin(st.longest_run)>>]
    ELSE LET mid == (c_lo + c_hi) \div 2
             left == longest_run_chunks(acc, test_data, c_lo, mid)
         IN After(left, longest_run_chunks(left, test_data, mid + 1, c_hi))

\* the bin of every complete chunk, in order
longest_run_bins(test_data) ==
    longest_run_chunks([last_bit |-> 0, current_run |-> 0, bins |-> <<>>],
                       test_data, 0, Len(test_data) \div LONGEST_RUN_CHUNK - 1).bins

longest_ones_run(test_data) ==
    IF test_data = <<>> THEN {P_ZERO}
    \* n = 0 chunks: every term of chi_squared is 0/0
    ELSE LET chi_squared ==
                 IF Len(longest_run_bins(test_data)) = 0 THEN "nan" ELSE "pos"
         IN Clamped(gamma_ur("pos", chi_squared))

\* matrix_ranks
MATRIX_SIZE == 32
MATRIX_WORDS == (MATRIX_SIZE * MATRIX_SIZE) \div 64
\* in ten-thousandths
EXPECTED_DISTRIBUTION == <<2888, 5776, 1336>>

\* the matrix of chunk c (from 0): word i gives rows 2i (its high half)
\* and 2i + 1 (its low half)
chunk_matrix(test_data, c) ==
    Rows(LAMBDA r :
        LET block == test_data[c * MATRIX_WORDS + (r \div 2) + 1]
        IN IF r % 2 = 0 THEN Shr(block, 32) ELSE Trunc(block, 32))

rank_bin(rank_of) ==
    IF rank_of = MATRIX_SIZE THEN 0
    ELSE IF rank_of = MATRIX_SIZE - 1 THEN 1
    ELSE 2

\* the bins of the ranks of the chunks lo..hi (from 0), in order
RECURSIVE matrix_rank_chunks(_, _, _)
matrix_rank_chunks(test_data, lo, hi) ==
    IF lo > hi THEN <<>>
    ELSE IF lo = hi
    THEN <<rank_bin(rank_binary_matrix(chunk_matrix(test_data, lo)))>>
    ELSE LET mid == (lo + hi) \div 2
             left == matrix_rank_chunks(test_data, lo, mid)
         IN After(left, left \o matrix_rank_chunks(test_data, mid + 1, hi))

matrix_rank_bins(test_data) ==
    matrix_rank_chunks(test_data, 0, Len(test_data) \div MATRIX_WORDS - 1)

matrix_ranks(test_data) ==
    IF test_data = <<>> THEN {P_ZERO}
    ELSE LET bins == matrix_rank_bins(test_data)
             n == Len(test_data) \div MATRIX_WORDS
             count(b) == Cardinality({c \in 1..n : bins[c] = b})
             chi_squared ==
                 \* n = 0: every term is 0/0
                 IF n = 0 THEN "nan"
                 ELSE IF \A b \in 0..2 :
                            10000 * count(b) = EXPECTED_DISTRIBUTION[b + 1] * n
                 THEN "nonneg"
                 ELSE "pos"
         IN Clamped(exp_neg_half(chi_squared))

(***************************************************************************)
(* rng_testing.rs: results and their classes                               *)
(***************************************************************************)
\* log-statistics count ten-thousandths: 9.9999 is 99999 of them
LogStatUnit == 10000
P_LOG_STAT_LIMIT_MARGINAL == 2
P_LOG_STAT_LIMIT_FAIL == 4
P_LOG_STAT_MAX == 99999
\* MAX_MARGINAL_FRACTION = 0.05, in hundredths
MAX_MARGINAL_FRACTION == 5
NUM_TESTS == 7

TEST_F_POINTERS(test_id, test_data) ==
    CASE test_id = 0 -> byte_distribution_test(test_data)
      [] test_id = 1 -> leading_zeros_frequency_test(test_data)
      [] test_id = 2 -> monobit_test(test_data)
      [] test_id = 3 -> runs_test(test_data)
      [] test_id = 4 -> u64_block_bit_frequency_test(test_data)
      [] test_id = 5 -> longest_ones_run(test_data)
      [] test_id = 6 -> matrix_ranks(test_data)

\* x - 1.0, for a logarithm
MinusOne(x) == IF x.k = "num" THEN Num(x.v - 1) ELSE x

\* x.mul(-0.2): a logarithm in ones to ten-thousandths
MulMinusFifth(x) ==
    CASE x.k = "num" -> Num((0 - x.v) * (LogStatUnit \div 5))
      [] x.k = "neg_inf" -> F_INF
      [] x.k = "inf" -> F_NEG_INF
      [] x.k = "nan" -> F_NAN

\* (p.min(1.0 - p).log2() - 1.0).mul(-0.2).min(9.9999)
p_log_stat(p) ==
    f64_min(MulMinusFifth(MinusOne(f64_log2(f64_min(p, OneMinus(p))))),
            Num(P_LOG_STAT_MAX))

\* a TestResult is [test_id, p]; time_used is a clock reading
TestResult(test_id, p) == [test_id |-> test_id, p |-> p]
logstat(self) == p_log_stat(self.p)
passed(self) ==
    F_Lt(logstat(self), Num(P_LOG_STAT_LIMIT_MARGINAL * LogStatUnit))
\* marginal() with both limits excluded
marginal_exclusive(self) ==
    /\ F_Lt(Num(P_LOG_STAT_LIMIT_MARGINAL * LogStatUnit), logstat(self))
    /\ F_Lt(logstat(self), Num(P_LOG_STAT_LIMIT_FAIL * LogStatUnit))
marginal(self) ==
    /\ F_Le(Num(P_LOG_STAT_LIMIT_MARGINAL * LogStatUnit), logstat(self))
    /\ F_Le(logstat(self), Num(P_LOG_STAT_LIMIT_FAIL * LogStatUnit))
\* failed() that takes every result that is not passed
failed_or_marginal(self) ==
    F_Le(Num(P_LOG_STAT_LIMIT_MARGINAL * LogStatUnit), logstat(self))
failed(self) ==
    F_Lt(Num(P_LOG_STAT_LIMIT_FAIL * LogStatUnit), logstat(self))

\* the class TestResult::format prints
format_class(self) ==
    IF passed(self) THEN "PASSED"
    ELSE IF marginal(self) THEN "MARGINAL!"
    ELSE "FAILED!!"

\* run_single_test, when the test function returns p
run_single_test(test_data, test_id, p) == TestResult(test_id, p)

\* the value a special function returns in this run where its range
\* leaves it open
Returned(ps, value) == IF value \in ps THEN value ELSE CHOOSE p \in ps : TRUE

\* the seven results with the tests taken from the last to the first
RECURSIVE run_all_tests_reversed(_, _, _)
run_all_tests_reversed(test_data, test_id, value) ==
    IF test_id >= NUM_TESTS THEN <<>>
    ELSE run_all_tests_reversed(test_data, test_id + 1, value)
         \o <<run_single_test(test_data, test_id,
                  Returned(TEST_F_POINTERS(test_id, test_data), value))>>

\* the seven results of a buffer, in the order of TEST_F_POINTERS
RECURSIVE run_all_tests(_, _, _)
run_all_tests(test_data, test_id, value) ==
    IF test_id >= NUM_TESTS THEN <<>>
    ELSE <<run_single_test(test_data, test_id,
               Returned(TEST_F_POINTERS(test_id, test_data), value))>>
         \o run_all_tests(test_data, test_id + 1, value)

\* format_test_results_summary: the histogram of floor(logstat), the
\* counts and the overall verdict
P_LOG_STAT_BINS == 10

logstat_bin(self) ==
    LET l == logstat(self)
    IN IF l.k = "num" /\ l.v >= 0 THEN l.v \div LogStatUnit ELSE 0

format_test_results_summary(results) ==
    LET n == Len(results)
        marginal_tests == Cardinality({i \in 1..n : marginal(results[i])})
        failed_tests ==
            Cardinality({i \in 1..n :
                            ~marginal(results[i]) /\ failed(results[i])})
    IN [p_logstat_bins |->
            [b \in 0..(P_LOG_STAT_BINS - 1) |->
                Cardinality({i \in 1..n : logstat_bin(results[i]) = b})],
        verdict |->
            IF failed_tests > 0
               \/ 100 * marginal_tests > MAX_MARGINAL_FRACTION * n
            THEN "FAILED!!" ELSE "PASSED",
        passed |-> n - failed_tests - marginal_tests,
        marginal |-> marginal_tests,
        failed |-> failed_tests,
        total |-> n]

\* the suite and the tests are not running
NoResult == [test_id |-> 0 - 1, p |-> F_NAN]
NoSeed == [from |-> "none", seed |-> {}]
NoSummary == [verdict |-> "none"]
SuiteIdle ==
    /\ pc = "idle"
    /\ samples = 0
    /\ seeds = <<>>
    /\ test_weak_seeds = FALSE
    /\ returned = F_NAN
    /\ index = 0
    /\ buffer = <<>>
    /\ tested = NoSeed
    /\ test_results = <<>>
    /\ found_weak_seeds = <<>>
    /\ output = <<>>
    /\ summary = NoSummary

(***************************************************************************)
(* The rank functions as a state machine: each is called on a matrix.      *)
(***************************************************************************)
BlockSize == 2
NoRank == 0 - 1

IdentityRow(r) == {col_mask(r)}
IdentityMatrix == Rows(IdentityRow)
ZeroMatrix == Rows(LAMBDA r : {})

\* the places a block is put at: rows from ro, columns from co
Offsets == {0, 7, MAXTRIX_SIZE - BlockSize}
BlockCells == (0..(BlockSize - 1)) \X (0..(BlockSize - 1))

\* the background with the cells of a BlockSize x BlockSize square, rows
\* from ro and columns from co, set to the block (a set of cells <<i, j>>)
BlockMatrix(background, block, ro, co) ==
    Rows(LAMBDA r :
        IF r \in ro..(ro + BlockSize - 1)
        THEN (background[r + 1]
                  \ {col_mask(co + j) : j \in 0..(BlockSize - 1)})
             \cup {col_mask(co + c[2]) : c \in {x \in block : x[1] = r - ro}}
        ELSE background[r + 1])

\* the matrix with row b replaced by a copy of row a
DuplicateRow(mat, a, b) == [mat EXCEPT ![b + 1] = mat[a + 1]]

Matrices ==
    {BlockMatrix(bg, block, ro, co) :
        bg \in {ZeroMatrix, IdentityMatrix}, block \in SUBSET BlockCells,
        ro \in Offsets, co \in Offsets}
    \cup {DuplicateRow(IdentityMatrix, a, b) :
            a \in {0, MAXTRIX_SIZE - 1}, b \in {1, MAXTRIX_SIZE - 2}}

RngIdle ==
    /\ rng = [kind |-> "none", state |-> {}]
    /\ overflow_checks = FALSE
    /\ panicked = FALSE
    /\ last = [op |-> "none", arg |-> {}, out |-> {}]
    /\ before = [op |-> "none", arg |-> {}, out |-> {}]
    /\ prev = rng
    /\ seeded = {}
    /\ calls = 0

RankInit ==
    /\ matrix \in Matrices
    /\ rank = NoRank
    /\ rank_nist = NoRank
    /\ RngIdle /\ SuiteIdle

RankIdle ==
    /\ matrix = <<>>
    /\ rank = NoRank
    /\ rank_nist = NoRank

CallRank ==
    /\ rank = NoRank
    /\ rank' = rank_binary_matrix(matrix)
    /\ UNCHANGED <<matrix, rank_nist, rngVars, suiteVars>>

CallRankNist ==
    /\ rank_nist = NoRank
    /\ rank_nist' = rank_binary_matrix_nist(matrix)
    /\ UNCHANGED <<matrix, rank, rngVars, suiteVars>>

RankNext == CallRank \/ CallRankNist

SpecRank == RankInit /\ [][RankNext]_vars

(***************************************************************************)
(* The generator as a state machine: a generator of any kind is built with *)
(* new(seed) and then receives any sequence of trait calls (and seek,      *)
(* where the type has it).                                                 *)
(***************************************************************************)
\* bounds of the exploration
NumSeeds == 2
MaxDelta == 2
MaxCounter == 1
MaxCalls == 3

SeedTable ==
    <<{}, {0}, U64_MAX,
      HexBits(<<1,2,3,4,5,6,7,8,9,10,11,12,13,14,15,0>>), {1}, {0, 1}>>
Seeds == {SeedTable[i] : i \in 1..NumSeeds}
SmallDeltas == {BitsOfNat(d) : d \in 0..MaxDelta}
\* a loop of delta steps is only run for a small delta
DeltasOf(kind) ==
    IF kind \in LoopKinds THEN SmallDeltas ELSE SmallDeltas \cup {USIZE_MAX}
SmallCounters == {BitsOfNat(c) : c \in 0..MaxCounter}
Counters == SmallCounters \cup {U64_MAX}

\* n calls of next() in a row: the generator after them, the outputs, and
\* whether one of them panicked
RECURSIVE NextTimes(_, _)
NextTimes(g, n) ==
    IF n = 0 THEN [rng |-> g, outs |-> <<>>, panic |-> FALSE]
    ELSE LET r == RNG_next(g)
         IN IF r.panic THEN [rng |-> r.rng, outs |-> <<>>, panic |-> TRUE]
            ELSE LET t == NextTimes(r.rng, n - 1)
                 IN [t EXCEPT !.outs = <<r.out>> \o @]

\* one step of the state: the unit that next() takes once, except in
\* XORShift128 (next() takes two next_u32 steps) and Randu (three
\* next_small steps)
RNG_step(g) ==
    CASE g.kind = "XORShift128" -> RNG_next_u32(g)
      [] g.kind = "Randu" -> Wrap(g, Randu_next_small(g.state))
      [] OTHER -> RNG_next(g)

RECURSIVE StepTimes(_, _)
StepTimes(g, n) ==
    IF n = 0 THEN [rng |-> g, panic |-> FALSE]
    ELSE LET r == RNG_step(g)
         IN IF r.panic THEN [rng |-> r.rng, panic |-> TRUE]
            ELSE StepTimes(r.rng, n - 1)

RngInit ==
    /\ overflow_checks \in BOOLEAN
    /\ panicked = FALSE
    /\ \E kind \in Kinds, seed \in Seeds :
          /\ rng = RNG_new(kind, seed)
          /\ seeded = seed
          /\ last = [op |-> "new", arg |-> seed, out |-> {}]
    /\ before = [op |-> "none", arg |-> {}, out |-> {}]
    /\ prev = rng
    /\ calls = 0
    /\ RankIdle /\ SuiteIdle

\* a call is made while the thread lives
CanCall == ~panicked /\ calls < MaxCalls

\* the bookkeeping every call shares
Called ==
    /\ prev' = rng
    /\ before' = last
    /\ calls' = calls + 1
    /\ UNCHANGED <<overflow_checks, rankVars, suiteVars>>

DoNext ==
    /\ CanCall
    /\ LET r == RNG_next(rng)
       IN /\ rng' = r.rng
          /\ panicked' = r.panic
          /\ last' = [op |-> "next", arg |-> {}, out |-> r.out]
    /\ Called
    /\ UNCHANGED seeded

DoNextU32 ==
    /\ CanCall
    /\ LET r == RNG_next_u32(rng)
       IN /\ rng' = r.rng
          /\ panicked' = r.panic
          /\ last' = [op |-> "next_u32", arg |-> {}, out |-> r.out]
    /\ Called
    /\ UNCHANGED seeded

DoAdvance ==
    /\ CanCall
    /\ \E delta \in DeltasOf(rng.kind) :
          LET r == RNG_advance(rng, delta)
          IN /\ rng' = r.rng
             /\ panicked' = r.panic
             /\ last' = [op |-> "advance", arg |-> delta, out |-> {}]
    /\ Called
    /\ UNCHANGED seeded

DoReseed ==
    /\ CanCall
    /\ \E seed \in Seeds :
          /\ rng' = RNG_reseed(rng, seed)
          /\ seeded' = seed
          /\ last' = [op |-> "reseed", arg |-> seed, out |-> {}]
    /\ Called
    /\ UNCHANGED panicked

DoSeek ==
    /\ CanCall
    /\ rng.kind \in SeekKinds
    /\ \E counter \in Counters :
          /\ rng' = RNG_seek(rng, counter)
          /\ last' = [op |-> "seek", arg |-> counter, out |-> {}]
    /\ Called
    /\ UNCHANGED <<panicked, seeded>>

RngNext == DoNext \/ DoNextU32 \/ DoAdvance \/ DoReseed \/ DoSeek

SpecRng == RngInit /\ [][RngNext]_vars

(***************************************************************************)
(* Properties of the generators                                            *)
(***************************************************************************)
FreshRng == RNG_new(rng.kind, seeded)
IsSmallDelta == last.op = "advance" /\ last.arg \in SmallDeltas

\* C1: for every generator, reseed(seed) is the same as replacing it with
\* new(seed): the first output drawn after a reseed, whatever came before
\* it, is the first output of a generator newly built from that seed.
C1_ReseedAsNew ==
    (before.op = "reseed" /\ ~panicked) =>
        /\ last.op = "next" => last.out = RNG_next(FreshRng).out
        /\ last.op = "next_u32" => last.out = RNG_next_u32(FreshRng).out

\* C2, as stated: advance(delta) leaves the generator where delta calls of
\* next() leave it, so the next output is the same either way.
C2_AdvanceAsNextCalls ==
    (IsSmallDelta /\ ~panicked) =>
        LET n == NextTimes(prev, NatOfBits(last.arg))
        IN ~n.panic => RNG_next(rng).out = RNG_next(n.rng).out

\* C2, amended: advance(delta) leaves the generator in the state that delta
\* single steps of its state leave it in; a step is one next(), except in
\* XORShift128 (one next_u32, half a next) and Randu (one next_small, a
\* third of a next).
C2_AdvanceAsSteps ==
    (IsSmallDelta /\ ~panicked) =>
        LET t == StepTimes(prev, NatOfBits(last.arg))
        IN ~t.panic /\ rng = t.rng

C2_Witness ==
    /\ IsSmallDelta /\ ~panicked
    /\ last.arg = BitsOfNat(2)
    /\ rng.kind = "XORShift128"
    /\ rng # prev

\* C5: no generator other than the AES one ever aborts on an integer
\* overflow, whatever its seed and state.
C5_NoAbort == rng.kind # "RijndaelStream" => ~panicked

\* C8: for StreamNLARXu128 seeded with s, seek(c) followed by next() gives
\* the output of the (c+1)-th next() of a generator newly built by new(s).
C8_SeekThenNext ==
    (/\ rng.kind = "StreamNLARXu128"
     /\ last.op = "next" /\ before.op = "seek"
     /\ before.arg \in SmallCounters) =>
        LET n == NextTimes(FreshRng, NatOfBits(before.arg) + 1)
        IN last.out = n.outs[Len(n.outs)]

C8_Witness ==
    /\ rng.kind = "StreamNLARXu128"
    /\ last.op = "next" /\ before.op = "seek"
    /\ before.arg = BitsOfNat(1)
    /\ seeded # {}
    /\ calls = 3

\* C9: StreamNLARXu128's advance(d) adds d to the low 64 bits of the state
\* modulo 2^64 and leaves the high 64 bits alone, which always hold the
\* seed of the latest new or reseed.
C9_AdvanceLowHalf ==
    rng.kind = "StreamNLARXu128" =>
        /\ Shr(rng.state, 64) = seeded
        /\ last.op = "advance" =>
              /\ rng.state \cap LOW_64 =
                     WrappingAdd(prev.state \cap LOW_64, last.arg, 64)
              /\ rng.state \cap HIGH_64 = prev.state \cap HIGH_64

\* an advance that wraps the counter, in a generator with a seed half
C9_Witness ==
    /\ rng.kind = "StreamNLARXu128"
    /\ last.op = "advance" /\ last.arg = USIZE_MAX
    /\ prev.state \cap LOW_64 # {}
    /\ seeded # {}

(***************************************************************************)
(* Properties of the rank functions                                        *)
(***************************************************************************)
\* the rows of the matrix and everything they XOR to
RECURSIVE SpanFrom(_, _)
SpanFrom(span, rows) ==
    IF rows = {} THEN span
    ELSE LET r == CHOOSE x \in rows : TRUE
         IN SpanFrom(span \cup {Xor(v, r) : v \in span}, rows \ {r})
Span(mat) == SpanFrom({{}}, {mat[r] : r \in 1..MAXTRIX_SIZE} \ {{}})

NonZeroRows(mat) == {r \in 1..MAXTRIX_SIZE : mat[r] # {}}
HasEqualRows(mat) ==
    \E a, b \in 1..MAXTRIX_SIZE : a # b /\ mat[a] = mat[b]

\* C6: rank_binary_matrix and rank_binary_matrix_nist return the same
\* number for every 32x32 matrix.
C6_RanksAgree ==
    (rank # NoRank /\ rank_nist # NoRank) => rank = rank_nist

C6_Witness ==
    /\ rank # NoRank /\ rank_nist # NoRank
    /\ rank \in 1..(MAXTRIX_SIZE - 1)
    /\ matrix[1] = {}

\* C7: rank_binary_matrix returns the rank over GF(2): a matrix of few
\* rows spans 2^rank vectors, the identity has rank 32, the zero matrix
\* rank 0, and a matrix with two equal rows has rank 31 at most.
C7_RankIsGF2Rank ==
    rank # NoRank =>
        /\ rank \in 0..MAXTRIX_SIZE
        /\ Cardinality(NonZeroRows(matrix)) <= BlockSize
              => Cardinality(Span(matrix)) = 2 ^ rank
        /\ matrix = IdentityMatrix => rank = MAXTRIX_SIZE
        /\ matrix = ZeroMatrix => rank = 0
        /\ HasEqualRows(matrix) => rank <= MAXTRIX_SIZE - 1

C7_Witness ==
    /\ rank = MAXTRIX_SIZE - 1
    /\ HasEqualRows(matrix)
    /\ Cardinality(NonZeroRows(matrix)) = MAXTRIX_SIZE

(***************************************************************************)
(* stats.rs and rng_testing.rs as a state machine: a buffer is generated   *)
(* and one of the seven tests is run on it.                                *)
(***************************************************************************)
MaxSample == 2
SampleSizes == (0..MaxSample) \cup {MATRIX_WORDS, LONGEST_RUN_CHUNK}
\* generators whose words are cheap to compute, of every pattern
StatKinds == {"OnlyZero", "OnlyOne", "AlternatingBlocks", "AlternatingBytes",
              "XORShift128", "Mmix", "Lehmer64", "StreamNLARXu128"}

RngQuiet ==
    /\ panicked = FALSE
    /\ last = [op |-> "none", arg |-> {}, out |-> {}]
    /\ before = [op |-> "none", arg |-> {}, out |-> {}]
    /\ prev = rng
    /\ seeded = {}
    /\ calls = 0

StatsInit ==
    /\ overflow_checks = FALSE
    /\ \E kind \in StatKinds, seed \in Seeds : rng = RNG_new(kind, seed)
    /\ RngQuiet /\ RankIdle
    /\ pc = "generate"
    /\ samples \in SampleSizes
    /\ seeds = <<>>
    /\ test_weak_seeds = FALSE
    /\ returned = F_NAN
    /\ index = 0
    /\ buffer = <<>>
    /\ tested = NoSeed
    /\ test_results = <<>>
    /\ found_weak_seeds = <<>>
    /\ output = <<>>
    /\ summary = NoSummary

GenerateTestData ==
    /\ pc = "generate"
    /\ LET g == generate_test_data(rng, samples)
       IN /\ rng' = g.rng
          /\ buffer' = g.data
    /\ pc' = "test"
    /\ UNCHANGED <<overflow_checks, panicked, last, prev, seeded, before,
                   calls, rankVars, samples, seeds, test_weak_seeds,
                   returned, index, tested, test_results, found_weak_seeds,
                   output, summary>>

RunSingleTest ==
    /\ pc = "test"
    /\ \E test_id \in 0..(NUM_TESTS - 1) :
          \E p \in TEST_F_POINTERS(test_id, buffer) :
             /\ test_results' = <<run_single_test(buffer, test_id, p)>>
    /\ pc' = "tested"
    /\ UNCHANGED <<rngVars, rankVars, samples, seeds, test_weak_seeds,
                   returned, index, buffer, tested, found_weak_seeds, output,
                   summary>>

StatsNext == GenerateTestData \/ RunSingleTest

SpecStats == StatsInit /\ [][StatsNext]_vars

(***************************************************************************)
(* Properties of the tests and of the classes                              *)
(***************************************************************************)
InUnitInterval(p) == p.k = "num" /\ 0 <= p.v /\ p.v <= PUnit

\* C4: each of the seven tests returns, for every non-empty buffer, a p
\* with 0 <= p <= 1, and never NaN.
C4_PInUnitInterval ==
    (pc = "tested" /\ buffer # <<>>) =>
        \A i \in 1..Len(test_results) : InUnitInterval(test_results[i].p)

ClassesOf(r) ==
    {c \in {"passed", "marginal", "failed"} :
        \/ c = "passed" /\ passed(r)
        \/ c = "marginal" /\ marginal(r)
        \/ c = "failed" /\ failed(r)}

\* C10: every TestResult is in exactly one class, for every p a test can
\* return: passed iff log_stat < 2.0, marginal iff 2.0 <= log_stat <= 4.0,
\* failed iff log_stat > 4.0, and the log-statistic is a number that is
\* below, between or above the two limits.
C10_ExactlyOneClass ==
    \A i \in 1..Len(test_results) :
        LET r == test_results[i]
            l == logstat(r)
            lo == P_LOG_STAT_LIMIT_MARGINAL * LogStatUnit
            hi == P_LOG_STAT_LIMIT_FAIL * LogStatUnit
        IN /\ Cardinality(ClassesOf(r)) = 1
           /\ l.k = "num"
           /\ passed(r) <=> l.v < lo
           /\ marginal(r) <=> (lo <= l.v /\ l.v <= hi)
           /\ failed(r) <=> l.v > hi

\* a test has returned NaN, and the result is classed as failed only
C10_Witness ==
    /\ pc = "tested"
    /\ test_results[1].p = F_NAN
    /\ ClassesOf(test_results[1]) = {"failed"}

(***************************************************************************)
(* rng_testing.rs: test_suite_with_seeds as a state machine.  The steps    *)
(* are the speed test, test_single_seed for each seed, one candidate of    *)
(* weak_seeds_tests at a time, and the summary.                            *)
(***************************************************************************)
MaxSeedList == 2

\* testdata.rs is not part of the sources: the head of STATIC_TEST_SEEDS is
\* the extremes 0, 1, u64::MAX, and two extreme seeds stand for the
\* candidates of WEAK_SEEDS
STATIC_TEST_SEEDS == <<{}, {0}, U64_MAX>>
WEAK_SEEDS == <<{}, U64_MAX>>

\* the generators the suite is run on: the words of ReferenceRand are
\* rand's, and the two UlsLcg512 differ from Mmix and Lehmer64 in width only
SuiteKinds == Kinds \ {"ReferenceRand", "UlsLcg512", "UlsLcg512H"}
SeedLists == UNION {[1..n -> Seeds] : n \in 0..MaxSeedList}
\* what the special functions return in a run, where their range leaves
\* it open: a p that passes, one that is marginal, one that fails
ReturnedValues == {P_Low(1), P_High(10), P_Low(MaxExp)}

Line(kind, seed, result) == [line |-> kind, seed |-> seed, result |-> result]
ResultLines(seed, results) ==
    [i \in 1..Len(results) |-> Line("result", seed, results[i])]

SuiteInit ==
    \* main.rs builds every generator with new(0); the build profile
    \* matters to Randu only, whose multiplication overflows
    /\ \E kind \in SuiteKinds :
          /\ rng = RNG_new(kind, {})
          /\ overflow_checks \in (IF kind = "Randu" THEN BOOLEAN ELSE {FALSE})
    /\ RngQuiet /\ RankIdle
    /\ pc = "speed_test"
    /\ samples \in 0..MaxSample
    /\ seeds \in SeedLists
    /\ test_weak_seeds \in BOOLEAN
    /\ returned \in ReturnedValues
    /\ index = 0
    /\ buffer = <<>>
    /\ tested = NoSeed
    /\ test_results = <<>>
    /\ found_weak_seeds = <<>>
    /\ output = <<>>
    /\ summary = NoSummary

suiteFrame ==
    <<overflow_checks, last, prev, seeded, before, calls, rankVars,
      samples, seeds, test_weak_seeds, returned>>

\* where the suite goes on after i seeds of the list
AfterSeeds(i) ==
    IF i < Len(seeds) THEN "seeds"
    ELSE IF test_weak_seeds THEN "weak_seeds"
    ELSE "summary"

\* the header line, then speed_test: reseed to STATIC_TEST_SEEDS[0] and
\* generate N words, which are dropped
SpeedTest ==
    /\ pc = "speed_test"
    /\ \E g \in {generate_test_data(RNG_reseed(rng, STATIC_TEST_SEEDS[1]),
                                    samples)} :
          /\ rng' = g.rng
          /\ panicked' = g.panic
          /\ pc' = IF g.panic THEN "panicked" ELSE AfterSeeds(0)
          /\ output' = IF g.panic THEN <<Line("header", {}, NoResult)>>
                       ELSE <<Line("header", {}, NoResult),
                              Line("speed", {}, NoResult)>>
    /\ UNCHANGED <<suiteFrame, index, buffer, tested, test_results,
                   found_weak_seeds, summary>>

\* the results of the buffer a generation left, none when it aborted
ResultsOf(g) == IF g.panic THEN <<>> ELSE run_all_tests(g.data, 0, returned)

\* test_single_seed on the next seed of the list
TestSingleSeed ==
    /\ pc = "seeds"
    /\ \E seed \in {seeds[index + 1]} :
       \E g \in {generate_test_data(RNG_reseed(rng, seed), samples)} :
       \E results \in {ResultsOf(g)} :
          /\ rng' = g.rng
          /\ panicked' = g.panic
          /\ tested' = [from |-> "seeds", seed |-> seed]
          /\ buffer' = g.data
          /\ pc' = IF g.panic THEN "panicked" ELSE AfterSeeds(index + 1)
          /\ output' = Append(output, Line("seed", seed, NoResult))
                       \o ResultLines(seed, results)
          /\ test_results' = test_results \o results
    /\ index' = IF AfterSeeds(index + 1) = "seeds" THEN index + 1 ELSE 0
    /\ UNCHANGED <<suiteFrame, found_weak_seeds, summary>>

\* weak_seeds_tests pushing its results onto the list of the suite
WeakSeedTestAccumulating ==
    /\ pc = "weak_seeds"
    /\ \E seed \in {WEAK_SEEDS[index + 1]} :
       \E g \in {generate_test_data(RNG_reseed(rng, seed), samples)} :
       \E seed_test_results \in {ResultsOf(g)} :
       \E is_last \in {index + 1 = Len(WEAK_SEEDS)} :
          /\ rng' = g.rng
          /\ panicked' = g.panic
          /\ tested' = [from |-> "weak_seeds", seed |-> seed]
          /\ buffer' = g.data
          /\ pc' = IF g.panic THEN "panicked"
                   ELSE IF is_last THEN "summary" ELSE "weak_seeds"
          /\ index' = IF g.panic THEN index
                      ELSE IF is_last THEN 0 ELSE index + 1
          /\ found_weak_seeds' =
                IF \E i \in 1..Len(seed_test_results) :
                      failed(seed_test_results[i])
                THEN Append(found_weak_seeds, seed)
                ELSE found_weak_seeds
          /\ output' =
                Append(output, Line("weak_seed", seed, NoResult))
                \o ResultLines(seed, seed_test_results)
                \o (IF is_last /\ ~g.panic
                    THEN <<Line("found_weak_seeds", {}, NoResult)>>
                    ELSE <<>>)
          /\ test_results' = test_results \o seed_test_results
    /\ UNCHANGED <<suiteFrame, summary>>

\* one candidate of weak_seeds_tests; after the last the found seeds are
\* printed
WeakSeedTest ==
    /\ pc = "weak_seeds"
    /\ \E seed \in {WEAK_SEEDS[index + 1]} :
       \E g \in {generate_test_data(RNG_reseed(rng, seed), samples)} :
       \E seed_test_results \in {ResultsOf(g)} :
       \E is_last \in {index + 1 = Len(WEAK_SEEDS)} :
          /\ rng' = g.rng
          /\ panicked' = g.panic
          /\ tested' = [from |-> "weak_seeds", seed |-> seed]
          /\ buffer' = g.data
          /\ pc' = IF g.panic THEN "panicked"
                   ELSE IF is_last THEN "summary" ELSE "weak_seeds"
          /\ index' = IF g.panic THEN index
                      ELSE IF is_last THEN 0 ELSE index + 1
          /\ found_weak_seeds' =
                IF \E i \in 1..Len(seed_test_results) :
                      failed(seed_test_results[i])
                THEN Append(found_weak_seeds, seed)
                ELSE found_weak_seeds
          /\ output' =
                Append(output, Line("weak_seed", seed, NoResult))
                \o ResultLines(seed, seed_test_results)
                \o (IF is_last /\ ~g.panic
                    THEN <<Line("found_weak_seeds", {}, NoResult)>>
                    ELSE <<>>)
    /\ UNCHANGED <<suiteFrame, test_results, summary>>

\* the summary of the accumulated results and the runtime line
Summarize ==
    /\ pc = "summary"
    /\ summary' = format_test_results_summary(test_results)
    /\ output' = output \o <<Line("summary_header", {}, NoResult),
                             Line("summary", {}, NoResult),
                             Line("runtime", {}, NoResult)>>
    /\ pc' = "done"
    /\ UNCHANGED <<suiteFrame, rng, panicked, index, buffer, tested,
                   test_results, found_weak_seeds>>

SuiteNext == SpeedTest \/ TestSingleSeed \/ WeakSeedTest \/ Summarize

SpecSuite == SuiteInit /\ [][SuiteNext]_vars

\* C3: in a suite run, the buffer the tests of a seed of the list receive
\* holds the first N next() outputs of a generator newly built
\* with that seed, whatever the speed test and the seeds before it did.
C3_BufferOfFreshGenerator ==
    (tested.from = "seeds" /\ ~panicked) =>
        LET fresh == generate_test_data(RNG_new(rng.kind, tested.seed),
                                        samples)
        IN ~fresh.panic => buffer = fresh.data

\* the generation for the j-th seed of the list in this run (j = 0: the
\* speed test), replayed from the generator main.rs built
RECURSIVE GenerationOfSeed(_)
GenerationOfSeed(j) ==
    IF j = 0
    THEN generate_test_data(
             RNG_reseed(RNG_new(rng.kind, {}), STATIC_TEST_SEEDS[1]), samples)
    ELSE generate_test_data(
             RNG_reseed(GenerationOfSeed(j - 1).rng, seeds[j]), samples)

\* the seeds of the list that have been processed
SeedsDone ==
    CASE pc = "seeds" -> index
      [] pc \in {"weak_seeds", "summary", "done"} -> Len(seeds)
      [] OTHER -> 0

\* C13: after the seed list the accumulated list has 7 entries per seed,
\* entry 7*j+t being the result of test t on the buffer of the j-th seed;
\* the result lines follow the header and the speed line in that order,
\* each seed's seven after its own line, and the summary comes after them.
C13_ResultOrder ==
    (pc \in {"seeds", "weak_seeds", "summary", "done"} /\ ~panicked) =>
        /\ Len(test_results) = NUM_TESTS * SeedsDone
        /\ output[1].line = "header" /\ output[2].line = "speed"
        /\ \A j \in 0..(SeedsDone - 1) :
              /\ output[2 + (NUM_TESTS + 1) * j + 1] =
                    Line("seed", seeds[j + 1], NoResult)
              /\ \A t \in 0..(NUM_TESTS - 1) :
                    LET r == test_results[NUM_TESTS * j + t + 1]
                    IN /\ r.test_id = t
                       /\ r.p = Returned(
                              TEST_F_POINTERS(t, GenerationOfSeed(j + 1).data),
                              returned)
                       /\ output[2 + (NUM_TESTS + 1) * j + 1 + t + 1] =
                              Line("result", seeds[j + 1], r)
        /\ \A i \in 1..Len(output) :
              output[i].line \in {"summary_header", "summary", "weak_seed"}
                 => i > 2 + (NUM_TESTS + 1) * SeedsDone

\* a finished suite of two seeds, with the candidates tested in between
C13_Witness ==
    /\ pc = "done" /\ ~panicked /\ test_weak_seeds
    /\ Len(seeds) = 2 /\ seeds[1] # seeds[2]
    /\ Len(test_results) = 2 * NUM_TESTS

(***************************************************************************)
(* format_test_results_summary on lists of results: up to MaxResults       *)
(* results in three runs, so that the marginal fraction reaches and passes *)
(* the twentieth from both sides.                                          *)
(***************************************************************************)
MaxResults == 41
MaxMarginalRun == 3
MaxFailedRun == 1

\* p values of every class: log-statistics 0.4, 1.8, 2.0, 2.2, 4.0, 4.2,
\* and the p that have no logarithm
SummaryPs == {P_Low(1), P_Low(8), P_Low(9), P_High(10), P_Low(MaxExp - 1),
              P_Low(MaxExp), P_ZERO, P_ONE, F_NAN}
Repeat(x, n) == [i \in 1..n |-> x]
SummaryLists ==
    {Repeat(TestResult(0, p1), a) \o Repeat(TestResult(0, p2), b)
        \o Repeat(TestResult(0, p3), c) :
        <<p1, p2, p3, a, b, c>> \in
            {q \in SummaryPs \X {P_Low(9), P_High(10), P_Low(MaxExp - 1)}
                   \X {P_Low(1), P_Low(MaxExp), F_NAN}
                   \X (0..MaxResults) \X (0..MaxMarginalRun)
                   \X (0..MaxFailedRun) :
                q[4] + q[5] + q[6] <= MaxResults}}

SummaryInit ==
    /\ overflow_checks = FALSE
    /\ rng = RNG_new("OnlyZero", {})
    /\ RngQuiet /\ RankIdle
    /\ pc = "summary"
    /\ samples = 0
    /\ seeds = <<>>
    /\ test_weak_seeds = FALSE
    /\ returned = F_NAN
    /\ index = 0
    /\ buffer = <<>>
    /\ tested = NoSeed
    /\ test_results \in SummaryLists
    /\ found_weak_seeds = <<>>
    /\ output = <<>>
    /\ summary = NoSummary

SpecSummary == SummaryInit /\ [][Summarize]_vars

ClassCount(results, class) ==
    Cardinality({i \in 1..Len(results) : format_class(results[i]) = class})

\* C11: the summary reports the verdict passed if and only if no result is
\* classified failed and the marginal results are at most 5% of all
\* results; otherwise it reports failed.
C11_SummaryVerdict ==
    pc = "done" =>
        /\ summary.verdict \in {"PASSED", "FAILED!!"}
        /\ summary.verdict = "PASSED" <=>
              /\ ClassCount(test_results, "FAILED!!") = 0
              /\ 20 * ClassCount(test_results, "MARGINAL!")
                    <= Len(test_results)

\* a summary that passes with two marginal results among forty or more
C11_Witness ==
    /\ pc = "done"
    /\ summary.verdict = "PASSED"
    /\ ClassCount(test_results, "MARGINAL!") = 2

(***************************************************************************)
(* weak_seeds_tests on its own: a generator in the state new(seed) left    *)
(* it, with buffers long enough for every test to have a statistic.        *)
(***************************************************************************)
WeakInit ==
    /\ overflow_checks = FALSE
    /\ \E kind \in StatKinds, seed \in Seeds : rng = RNG_new(kind, seed)
    /\ RngQuiet /\ RankIdle
    /\ pc = "weak_seeds"
    /\ samples \in SampleSizes
    /\ seeds = <<>>
    /\ test_weak_seeds = TRUE
    /\ returned \in ReturnedValues
    /\ index = 0
    /\ buffer = <<>>
    /\ tested = NoSeed
    /\ test_results = <<>>
    /\ found_weak_seeds = <<>>
    /\ output = <<>>
    /\ summary = NoSummary

WeakNext == WeakSeedTest \/ Summarize

SpecWeak == WeakInit /\ [][WeakNext]_vars

\* the result lines printed for the candidates: those after the first
\* candidate's line
WeakResultLines ==
    {i \in 1..Len(output) :
        /\ output[i].line = "result"
        /\ \E j \in 1..(i - 1) : output[j].line = "weak_seed"}
FailedOnWeakSeed(seed) ==
    \E i \in WeakResultLines :
        /\ output[i].seed = seed
        /\ format_class(output[i].result) = "FAILED!!"

\* C12: the list weak_seeds_tests returns contains a candidate if and only
\* if at least one of the seven tests on that candidate's buffer is
\* classified failed, once and in the order of the candidate list.
C12_WeakSeedsFound ==
    (pc \in {"summary", "done"} /\ test_weak_seeds /\ ~panicked) =>
        /\ \A k \in 1..Len(WEAK_SEEDS) :
              Cardinality({i \in WeakResultLines :
                              output[i].seed = WEAK_SEEDS[k]}) = NUM_TESTS
        /\ found_weak_seeds = SelectSeq(WEAK_SEEDS, FailedOnWeakSeed)

\* one candidate is found and another is not
C12_Witness ==
    /\ pc = "summary" /\ test_weak_seeds
    /\ Len(found_weak_seeds) = 1

(***************************************************************************)
(* fast_log2 as a state machine: it is called on a word.                   *)
(***************************************************************************)
MaxLogInput == 70

\* 0..MaxLogInput, and 2^k - 1, 2^k, 2^k + 1 for every k
LogInputs ==
    {BitsOfNat(n) : n \in 0..MaxLogInput}
    \cup {{k} : k \in 0..63}
    \cup {{0, k} : k \in 1..63}
    \cup {0..k : k \in 0..63}

FastLog2Init ==
    /\ overflow_checks = FALSE
    /\ rng = RNG_new("OnlyZero", {})
    /\ panicked = FALSE
    /\ \E in_int \in LogInputs :
          last = [op |-> "fast_log2", arg |-> in_int, out |-> 0]
    /\ before = [op |-> "none", arg |-> {}, out |-> {}]
    /\ prev = rng
    /\ seeded = {}
    /\ calls = 0
    /\ RankIdle
    /\ pc = "fast_log2"
    /\ samples = 0
    /\ seeds = <<>>
    /\ test_weak_seeds = FALSE
    /\ returned = F_NAN
    /\ index = 0
    /\ buffer = <<>>
    /\ tested = NoSeed
    /\ test_results = <<>>
    /\ found_weak_seeds = <<>>
    /\ output = <<>>
    /\ summary = NoSummary

CallFastLog2 ==
    /\ pc = "fast_log2"
    /\ last' = [last EXCEPT !.out = fast_log2(last.arg)]
    /\ pc' = "fast_log2_returned"
    /\ UNCHANGED <<rng, overflow_checks, panicked, prev, seeded, before,
                   calls, rankVars, samples, seeds, test_weak_seeds, returned,
                   index, buffer, tested, test_results, found_weak_seeds,
                   output, summary>>

SpecFastLog2 == FastLog2Init /\ [][CallFastLog2]_vars

\* 2^e >= n for a 64-bit n: n has no bit at e or above, or n is 2^e
Pow2AtLeast(e, n) == n \subseteq 0..(e - 1) \/ n = {e}

\* C14: fast_log2(0) = 0 and for n >= 1 fast_log2(n) is the smallest e
\* with 2^e >= n; fast_log2(2^k) = k and fast_log2(2^k + 1) = k + 1 for
\* 0 <= k <= 63.
C14_FastLog2IsCeilLog2 ==
    pc = "fast_log2_returned" =>
        LET n == last.arg
            e == last.out
        IN /\ n = {} => e = 0
           /\ n # {} =>
                 /\ e \in 0..64
                 /\ Pow2AtLeast(e, n)
                 /\ \A d \in 0..(e - 1) : ~Pow2AtLeast(d, n)
           /\ \A k \in 0..63 :
                 /\ n = {k} => e = k
                 /\ n = WrappingAdd({k}, {0}, 64) => e = k + 1

\* the call returned 64 for 2^63 + 1
C14_Witness ==
    /\ pc = "fast_log2_returned"
    /\ last.arg = {0, 63}
    /\ last.out = 64

\* C15: each of the seven tests returns exactly 0.0 on an empty buffer.
C15_EmptyBufferZero ==
    (pc = "tested" /\ buffer = <<>>) =>
        \A i \in 1..Len(test_results) : test_results[i].p = P_ZERO

\* the last of the seven tests has returned 0.0 on an empty buffer
C15_Witness ==
    /\ pc = "tested" /\ buffer = <<>> /\ samples = 0
    /\ test_results = <<TestResult(NUM_TESTS - 1, P_ZERO)>>

\* the test of the result has one possible value on the buffer
Determined(r) == Cardinality(TEST_F_POINTERS(r.test_id, buffer)) = 1

\* C16: for Lehmer64 and the seeds 0, 1 and u64::MAX every one of the seven
\* tests on the generated buffer is classified passed.  The buffers are
\* of whole 128-word blocks, and a result counts where the statistic of
\* the test leaves one value only.
C16_Lehmer64AllPassed ==
    (pc = "tested" /\ rng.kind = "Lehmer64"
        /\ Len(buffer) > 0 /\ Len(buffer) % LONGEST_RUN_CHUNK = 0) =>
        \A i \in 1..Len(test_results) :
            Determined(test_results[i]) => passed(test_results[i])

\* C17: for every non-empty buffer of a freshly constructed
\* AlternatingBlocks generator the ones equal the zeros in number and
\* monobit_test returns exactly 1.0.
C17_AlternatingBlocksBalanced ==
    (pc = "tested" /\ rng.kind = "AlternatingBlocks" /\ buffer # <<>>) =>
        /\ OnesDifference(buffer) = 0
        /\ \A i \in 1..Len(test_results) :
              test_results[i].test_id = 2 => test_results[i].p = P_ONE

\* C17, for the buffers of an even number of words
C17_BalancedOnEvenLength ==
    (pc = "tested" /\ rng.kind = "AlternatingBlocks" /\ buffer # <<>>
        /\ Len(buffer) % 2 = 0) =>
        /\ OnesDifference(buffer) = 0
        /\ \A i \in 1..Len(test_results) :
              test_results[i].test_id = 2 => test_results[i].p = P_ONE

\* monobit_test has returned 1.0 on two words of AlternatingBlocks
C17_Witness ==
    /\ pc = "tested" /\ rng.kind = "AlternatingBlocks"
    /\ buffer = <<U64_MAX, {}>>
    /\ test_results = <<TestResult(2, P_ONE)>>

\* C18: on every non-empty buffer of all-zero words only, or of all-one
\* words only, monobit_test returns 0.0 and u64_block_bit_frequency_test
\* returns 0.0.
C18_ConstantBufferZero ==
    (pc = "tested" /\ rng.kind \in {"OnlyZero", "OnlyOne"}
        /\ buffer # <<>>) =>
        \A i \in 1..Len(test_results) :
            test_results[i].test_id \in {2, 4} => test_results[i].p = P_ZERO

\* C19: runs_test returns 0.0 whenever its statistic is NaN, as it is for
\* a buffer of all-zero words only or of all-one words only.
C19_RunsNaNZero ==
    (pc = "tested" /\ buffer # <<>> /\ runs_statistic(buffer) = "nan") =>
        \A i \in 1..Len(test_results) :
            test_results[i].test_id = 3 => test_results[i].p = P_ZERO

(***************************************************************************)
(* longest_ones_run on buffers of two blocks: zero words, but for the last *)
(* word of the first block, which ends in a run of ones, and the first     *)
(* word of the second block, which starts with one.                        *)
(***************************************************************************)
MaxRunBits == 12

\* words whose top t bits are set, and words whose low h bits are set or
\* that hold bit 2 alone
TailWords == {(64 - t)..63 : t \in 0..MaxRunBits}
HeadWords == {0..(h - 1) : h \in 0..MaxRunBits} \cup {{2}}
RunBuffer(tail, head) ==
    [i \in 1..(2 * LONGEST_RUN_CHUNK) |->
        IF i = LONGEST_RUN_CHUNK THEN tail
        ELSE IF i = LONGEST_RUN_CHUNK + 1 THEN head
        ELSE {}]

RunsInit ==
    /\ overflow_checks = FALSE
    /\ rng = RNG_new("OnlyZero", {})
    /\ RngQuiet /\ RankIdle
    /\ pc = "test"
    /\ \E tail \in TailWords, head \in HeadWords :
          buffer = RunBuffer(tail, head)
    /\ samples = 2 * LONGEST_RUN_CHUNK
    /\ seeds = <<>>
    /\ test_weak_seeds = FALSE
    /\ returned = F_NAN
    /\ index = 0
    /\ tested = NoSeed
    /\ test_results = <<>>
    /\ found_weak_seeds = <<>>
    /\ output = <<>>
    /\ summary = NoSummary

SpecRuns == RunsInit /\ [][RunSingleTest]_vars

\* the positions of the one bits of block c (from 0), the bits of a word
\* from bit 0 to bit 63 and the words in order
BlockOnes(test_data, c) ==
    UNION {{64 * (i - 1) + b : b \in test_data[c * LONGEST_RUN_CHUNK + i]} :
              i \in 1..LONGEST_RUN_CHUNK}
\* the longest run of consecutive ones among the bits of block c
OwnLongestRun(test_data, c) ==
    LET ones == BlockOnes(test_data, c)
        starts == {s \in ones : (s - 1) \notin ones}
        run(s) == (CHOOSE e \in (s + 1)..(64 * LONGEST_RUN_CHUNK) :
                      e \notin ones) - s
    IN IF ones = {} THEN 0 ELSE SetMax({run(s) : s \in starts})

\* C20: for every complete 128-word block longest_ones_run bins the
\* length of the longest run of ones among the block's own bits; the bits
\* of the block before it do not contribute.
C20_BlockOwnRun ==
    (pc = "tested" /\ test_results[1].test_id = 5) =>
        \A c \in 0..(Len(buffer) \div LONGEST_RUN_CHUNK - 1) :
            longest_run_bins(buffer)[c + 1] =
                longest_run_bin(OwnLongestRun(buffer, c))

\* the adjacent bit pairs that differ in the concatenated bit stream: the
\* pairs inside each word, and bit 63 of a word with bit 0 of the next
DifferingPairs(test_data) ==
    SumOf([i \in 1..Len(test_data) |->
              Cardinality({b \in 0..62 :
                  (b \in test_data[i]) # ((b + 1) \in test_data[i])})],
          1, Len(test_data))
    + Cardinality({i \in 2..Len(test_data) :
          (0 \in test_data[i]) # (63 \in test_data[i - 1])})

\* C21: for every non-empty buffer the run counter of runs_test is the
\* number of adjacent bit pairs that differ in the concatenated bit
\* stream, with nothing added for a boundary before the first word.
C21_RunsCountsDifferingPairs ==
    (pc = "tested" /\ buffer # <<>> /\ test_results[1].test_id = 3) =>
        runs_counted(buffer) = DifferingPairs(buffer)

(***************************************************************************)
(* conditioning.rs: rs_random_int.  An i64 is its 64 bits in two's         *)
(* complement; the rejection loop is one step for each draw.               *)
(***************************************************************************)
I64(n) == IF n >= 0 THEN BitsOfNat(n) ELSE Not(BitsOfNat(0 - n - 1), 64)
I64Negative(a) == 63 \in a
\* a < b as u64
U64Less(a, b) ==
    \E i \in b \ a : \A j \in (i + 1)..63 : (j \in a) <=> (j \in b)

\* (upper - lower).min(0) as u64, for arguments far from the ends of i64
rs_range(lower, upper) ==
    LET difference == WrappingAdd(I64(upper), I64(0 - lower), 64)
    IN IF I64Negative(difference) THEN difference ELSE {}
\* u64::MAX >> (range - 1).leading_zeros()
rs_mask(range) ==
    Shr(U64_MAX, leading_zeros(WrappingAdd(range, U64_MAX, 64), 64))
\* rn as i64 + lower: the sum leaves i64 when both have the sign that the
\* sum has not
rs_sum(rn, lower) ==
    LET sum == WrappingAdd(rn, I64(lower), 64)
    IN [out |-> sum,
        panic |-> /\ overflow_checks
                  /\ I64Negative(rn) = I64Negative(I64(lower))
                  /\ I64Negative(sum) # I64Negative(rn)]

MaxInt == 3
MaxDraws == 3

RandomIntInit ==
    /\ overflow_checks \in BOOLEAN
    /\ \E kind \in StatKinds, seed \in Seeds : rng = RNG_new(kind, seed)
    /\ panicked = FALSE
    /\ \E lower \in (0 - MaxInt)..MaxInt, upper \in (0 - MaxInt)..MaxInt :
          last = [op |-> "rs_random_int", arg |-> <<lower, upper>>,
                  out |-> {}]
    /\ before = [op |-> "none", arg |-> {}, out |-> {}]
    /\ prev = rng
    /\ seeded = {}
    /\ calls = 0
    /\ RankIdle
    /\ pc = "rs_random_int"
    /\ samples = 0
    /\ seeds = <<>>
    /\ test_weak_seeds = FALSE
    /\ returned = F_NAN
    /\ index = 0
    /\ buffer = <<>>
    /\ tested = NoSeed
    /\ test_results = <<>>
    /\ found_weak_seeds = <<>>
    /\ output = <<>>
    /\ summary = NoSummary

randomIntFrame ==
    <<overflow_checks, prev, seeded, before, rankVars, samples, seeds,
      test_weak_seeds, returned, index, buffer, tested, test_results,
      found_weak_seeds, output, summary>>

\* the entry of rs_random_int: a range of 0 returns lower
RsEnter ==
    /\ pc = "rs_random_int"
    /\ IF rs_range(last.arg[1], last.arg[2]) = {}
       THEN /\ last' = [last EXCEPT !.out = I64(last.arg[1])]
            /\ pc' = "rs_returned"
       ELSE /\ pc' = "rs_loop"
            /\ UNCHANGED last
    /\ UNCHANGED <<rng, panicked, calls, randomIntFrame>>

\* one turn of the loop: draw, mask, and leave if rn < range
RsDraw ==
    /\ pc = "rs_loop"
    /\ calls < MaxDraws
    /\ \E range \in {rs_range(last.arg[1], last.arg[2])} :
       \E r \in {RNG_next(rng)} :
       \E rn \in {r.out \cap rs_mask(range)} :
       \E sum \in {rs_sum(rn, last.arg[1])} :
          /\ rng' = r.rng
          /\ calls' = calls + 1
          /\ IF r.panic \/ ~U64Less(rn, range)
             THEN /\ panicked' = r.panic
                  /\ pc' = IF r.panic THEN "panicked" ELSE "rs_loop"
                  /\ UNCHANGED last
             ELSE /\ panicked' = sum.panic
                  /\ pc' = IF sum.panic THEN "panicked" ELSE "rs_returned"
                  /\ last' = [last EXCEPT !.out = sum.out]
    /\ UNCHANGED randomIntFrame

RandomIntNext == RsEnter \/ RsDraw

SpecRandomInt == RandomIntInit /\ [][RandomIntNext]_vars

\* the first output, among the first MaxDraws of the stream of g, whose
\* masked value is below range
RECURSIVE FirstAccepted(_, _, _, _)
FirstAccepted(g, mask, range, n) ==
    IF n > MaxDraws THEN [found |-> FALSE, value |-> 0, draws |-> 0]
    ELSE LET r == RNG_next(g)
             masked == NatOfBits(r.out \cap mask)
         IN IF masked < range
            THEN [found |-> TRUE, value |-> masked, draws |-> n]
            ELSE FirstAccepted(r.rng, mask, range, n + 1)

\* C22: for lower < upper rs_random_int returns lower + (x & mask) with
\* range = upper - lower, mask = u64::MAX >> (range - 1).leading_zeros()
\* and x the first output with (x & mask) < range: the result is in
\* [lower, upper), and the outputs up to x and no more are consumed.
C22_RejectionSampling ==
    (pc = "rs_returned" /\ last.arg[1] < last.arg[2]) =>
        LET lower == last.arg[1]
            range == last.arg[2] - lower
            mask == Shr(U64_MAX, leading_zeros(BitsOfNat(range - 1), 64))
            x == FirstAccepted(prev, mask, range, 1)
        IN x.found =>
              /\ last.out = I64(lower + x.value)
              /\ calls = x.draws
              /\ rng = NextTimes(prev, x.draws).rng

(***************************************************************************)
(* The parameters leading_zeros_frequency_test derives from the length of  *)
(* its buffer, for lengths around the multiples of EXPECTED_SAMPLE_COUNT.  *)
(***************************************************************************)
MaxLzBlocks == 9
LzSpread == 8
LzLengths ==
    {n \in {q * EXPECTED_SAMPLE_COUNT + d :
                q \in 0..MaxLzBlocks, d \in (0 - LzSpread)..LzSpread} :
        n >= 1}

LzInit ==
    /\ overflow_checks = FALSE
    /\ rng = RNG_new("OnlyZero", {})
    /\ panicked = FALSE
    /\ last = [op |-> "leading_zeros_frequency_test", arg |-> {},
               out |-> [zero_count |-> 0, mask |-> {}]]
    /\ before = [op |-> "none", arg |-> {}, out |-> {}]
    /\ prev = rng
    /\ seeded = {}
    /\ calls = 0
    /\ RankIdle
    /\ pc = "lz_setup"
    /\ samples \in LzLengths
    /\ seeds = <<>>
    /\ test_weak_seeds = FALSE
    /\ returned = F_NAN
    /\ index = 0
    /\ buffer = <<>>
    /\ tested = NoSeed
    /\ test_results = <<>>
    /\ found_weak_seeds = <<>>
    /\ output = <<>>
    /\ summary = NoSummary

\* the head of leading_zeros_frequency_test on a buffer of samples words:
\* zero_count and mask
LzSetup ==
    /\ pc = "lz_setup"
    /\ last' = [last EXCEPT !.out = [zero_count |-> lz_zero_count(samples),
                                     mask |-> lz_mask(samples)]]
    /\ pc' = "lz_scan"
    /\ UNCHANGED <<rng, overflow_checks, panicked, prev, seeded, before,
                   calls, rankVars, samples, seeds, test_weak_seeds, returned,
                   index, buffer, tested, test_results, found_weak_seeds,
                   output, summary>>

SpecLz == LzInit /\ [][LzSetup]_vars

\* the least e with 2^e * d >= n
CeilLog2Ratio(n, d) == CHOOSE e \in 0..31 :
    /\ Pow2(e) * d >= n
    /\ \A f \in 0..(e - 1) : Pow2(f) * d < n
AtLeastOne(k) == IF k > 1 THEN k ELSE 1

\* C23: for every buffer length N >= 1 the test masks
\* k = max(1, ceil(log2(N / 16384))) low bits, with hit mask 2^k - 1.
C23_LzMaskedBits ==
    pc = "lz_scan" =>
        LET k == AtLeastOne(CeilLog2Ratio(samples, EXPECTED_SAMPLE_COUNT))
        IN /\ last.out.zero_count = k
           /\ last.out.mask = 0..(k - 1)

\* C23, with N / 16384 the integer quotient (and k = 1 where it is 0)
C23_LzMaskedBitsOfQuotient ==
    pc = "lz_scan" =>
        LET k == AtLeastOne(
                     CeilLog2Ratio(samples \div EXPECTED_SAMPLE_COUNT, 1))
        IN /\ last.out.zero_count = k
           /\ last.out.mask = 0..(k - 1)

\* 2 * 16384 + 1 words: one bit is masked, where the ratio is above 2
C23_Witness ==
    /\ pc = "lz_scan"
    /\ samples = 2 * EXPECTED_SAMPLE_COUNT + 1
    /\ last.out = [zero_count |-> 1, mask |-> {0}]

\* the base step of RANDU on unbounded integers: (s * 65539) AND 0x7fffffff
RanduBaseStep(s) == WrappingMul(s, RANDU_MULTIPLIER, 64) \cap Mask(31)

\* the three-step and two-step outputs put together from base steps
RanduOutput64(s) ==
    LET a == RanduBaseStep(s)
        b == RanduBaseStep(a)
        c == RanduBaseStep(b)
    IN [state |-> c,
        out |-> Shl(a, 42, 64) \cup Shl(b \cap Mask(22), 20, 64)
                \cup (c \cap Mask(20))]
RanduOutput32(s) ==
    LET a == RanduBaseStep(s)
        b == RanduBaseStep(a)
    IN [state |-> b, out |-> Shl(a, 15, 32) \cup (b \cap Mask(16))]

RanduCalled(ops) == rng.kind = "Randu" /\ last.op \in ops

\* what C24 says of a call made in a build without overflow checks
RanduStepsAsStated ==
    /\ RanduCalled({"next"}) =>
          /\ last.out = RanduOutput64(prev.state).out
          /\ rng.state = RanduOutput64(prev.state).state
    /\ RanduCalled({"next_u32"}) =>
          /\ last.out = RanduOutput32(prev.state).out
          /\ rng.state = RanduOutput32(prev.state).state
    /\ (RanduCalled({"next", "next_u32"})
        \/ (RanduCalled({"advance"}) /\ last.arg # {})) =>
          rng.state \subseteq Mask(31)

\* C24: in any state, next() of Randu makes three base steps
\* s <- (s * 65539) AND 0x7fffffff giving a, b, c and returns
\* (a << 42) | ((b & 0x3fffff) << 20) | (c & 0xfffff); next_u32() makes two
\* base steps giving a, b and returns (a << 15) | (b & 0xffff) cut to 32
\* bits; after every base step the state is at most 2^31 - 1.
C24_RanduSteps ==
    RanduCalled({"next", "next_u32", "advance"}) =>
        ~panicked /\ RanduStepsAsStated

\* the same outside of builds with overflow checks
C24_RanduStepsWrapping == ~overflow_checks => RanduStepsAsStated

C24_WrappingWitness ==
    /\ RanduCalled({"next"}) /\ ~overflow_checks
    /\ prev.state = {0, 1, 16}
    /\ calls = 2

\* the class under which format_test_results_summary counts a result
summary_class(self) ==
    IF marginal(self) THEN "MARGINAL!"
    ELSE IF failed(self) THEN "FAILED!!"
    ELSE "PASSED"

\* C25: the class TestResult::format prints for a result is the class
\* under which the summary counts it: the three counts of the summary are
\* the numbers of results printed PASSED, MARGINAL! and FAILED!!, and a
\* result printed FAILED!! makes the overall verdict FAILED!!.
C25_PrintedClassIsCounted ==
    pc = "done" =>
        /\ \A i \in 1..Len(test_results) :
              format_class(test_results[i]) = summary_class(test_results[i])
        /\ summary.passed = ClassCount(test_results, "PASSED")
        /\ summary.marginal = ClassCount(test_results, "MARGINAL!")
        /\ summary.failed = ClassCount(test_results, "FAILED!!")
        /\ ClassCount(test_results, "FAILED!!") > 0 =>
              summary.verdict = "FAILED!!"

\* a summary over results of all three classes, one of them with p = NaN
C25_Witness ==
    /\ pc = "done"
    /\ \E i \in 1..Len(test_results) :
          test_results[i].p = F_NAN /\ format_class(test_results[i]) = "FAILED!!"
    /\ summary.failed = 1
    /\ summary.marginal = 2
    /\ summary.passed = 3
    /\ summary.verdict = "FAILED!!"

\* the results of the first j seeds of the list, replayed
RECURSIVE SuppliedResults(_)
SuppliedResults(j) ==
    IF j = 0 THEN <<>>
    ELSE SuppliedResults(j - 1) \o ResultsOf(GenerationOfSeed(j))

\* C26: the scan of the weak seeds leaves the accumulated list as the seed
\* list left it, and the summary (histogram, counts and verdict) is that of
\* the results of the supplied seeds alone, with test_weak_seeds set or not.
C26_WeakScanLeavesResults ==
    /\ (pc \in {"weak_seeds", "summary", "done"} /\ ~panicked) =>
          test_results = SuppliedResults(Len(seeds))
    /\ pc = "done" =>
          summary = format_test_results_summary(SuppliedResults(Len(seeds)))

\* a finished suite whose scan found a weak seed after one supplied seed
C26_Witness ==
    /\ pc = "done" /\ test_weak_seeds
    /\ found_weak_seeds # <<>>
    /\ tested.from = "weak_seeds"
    /\ Len(seeds) = 1
    /\ summary.total = NUM_TESTS

Init == RngInit
Next == RngNext
Spec == Init /\ [][Next]_vars
=============================================================================
